---- MODULE Spec2Model ----
(***************************************************************************)
(* Worker task handlers of the novel-promotion pipeline:                   *)
(*   handleStoryToScriptTask      (lib/workers/handlers/story-to-script)   *)
(*   handleScriptToStoryboardTask (lib/workers/handlers/script-to-         *)
(*                                 storyboard)                             *)
(* One worker runs one job at a time; every await of a handler is a step   *)
(* of the model, so that cancellation and the deletion of the episode can  *)
(* interleave with the handler at every suspension point.                  *)
(***************************************************************************)
EXTENDS Integers, Sequences, FiniteSets, TLC

\* ------------------------------------------------------------------ bounds
MaxRuns == 2
MaxClips == 2
MaxPanels == 1
MaxVoiceLines == 2
MaxPreviewItems == 5

\* ------------------------------------------------------- program constants
ProgressPrepare == 10
ProgressStepBase == 15
ProgressStepSpan == 55
ProgressPersist == 80
ProgressPersistDone == 96
MaxVoiceAttempts == 2
PreviewLimit == 3

VARIABLES
  handler,          \* "s2s" | "s2b": which handler the current job runs
  pc,               \* position of the handler in its code
  run,              \* ordinal of the current job (tags the rows it writes)
  outcome,          \* "none" | "done" | the error the handler rejected with
  cancelled,        \* the task was cancelled or superseded (queue side)
  episodeExists,    \* the episode row of the job still exists
  nClips,           \* s2b: clips of the episode; s2s: clips the LLM segments
  nPanels,          \* s2b: panels the orchestrator plans per storyboard
  novelText,        \* s2b: episode.novelText is non-blank
  progressLog,      \* percentages passed to reportTaskProgress, in order
  llmCalls,         \* chatCompletion calls of this job
  auditLogs,        \* logAIAnalysis PROMPT/OUTPUT entries of this job
  parseErrorLogs,   \* logAIAnalysis PARSE_ERROR entries of this job
  flushes,          \* callbacks.flush() calls of this job
  rsCaller,         \* who called runStep: "orch" | "voice" | "none"
  rsMeta,           \* step metadata of the running runStep
  rsAsserted,       \* assertTaskActive returned inside this runStep call
  rsResult,         \* what runStep hands to its caller: a text or an error
  assertSinceLLM,   \* assertTaskActive returned after the last LLM call
  signalled,        \* assertTaskActive has thrown in this job
  orchStep,         \* steps the orchestrator has completed
  analyzedCharacters,
  analyzedLocations,
  screenplayResults,\* s2s: per clip "ok" | "fail"
  pendingErr,       \* error travelling through try/catch/finally
  upI,              \* s2s: index of the screenplay-update loop
  dbCharacters,
  dbLocations,
  dbClips,
  dbStoryboards,
  dbPanels,
  dbVoiceLines,
  persistedStoryboards, \* s2b: return value of persistStoryboardsAndPanels
  voiceAttempt,
  voiceLastError,
  voiceLineRows,    \* parsed voice lines, or NoRows (null)
  voiceLog,         \* how each voice-analysis attempt ended, in order
  txOpen,           \* the voice-line $transaction is open
  txVoiceLines,     \* the voice-line table as seen inside the transaction
  txI,              \* loop index inside the transaction
  jobData,          \* what the prologue has read of job.data and of the config
  model,            \* the resolved analysis model, "" before it is resolved
  llmModel,         \* the model passed to the last chatCompletion call
  dbReads,          \* prisma / config-service reads of this job
  errorPreview,     \* s2s: preview carried by the PARTIAL_FAILED error
  reporterFlaky,    \* the progress channel may fail to deliver a report
  reportLost,       \* a progress report of this job was not delivered
  mediaReq,         \* GET /m/[publicId]: the request, the media row and the file
  mediaRes,         \* GET /m/[publicId]: position of the handler and its response
  genResponse,      \* image generator: what client.images.generate returned
  genResult,        \* image generator: what doGenerate returned or threw
  upload,           \* uploadToCOS: one call, its attempts and waits
  imageCache,       \* getImageBase64Cached: the cache, the downloads, the callers
  workerProc,       \* the worker process: its workers and its shutdown
  projectCache      \* useUpdateProjectConfig: the query cache and the mutations

envVars == <<cancelled, episodeExists, reporterFlaky, reportLost>>
obsVars == <<progressLog, llmCalls, auditLogs, parseErrorLogs, flushes>>
rsVars == <<rsCaller, rsMeta, rsAsserted, rsResult>>
histVars == <<assertSinceLLM, signalled, voiceLog>>
orchVars == <<orchStep, analyzedCharacters, analyzedLocations, screenplayResults, pendingErr>>
voiceVars == <<persistedStoryboards, voiceAttempt, voiceLastError, voiceLineRows>>
txVars == <<txOpen, txVoiceLines, txI>>
jobVars == <<jobData, model, llmModel, dbReads, errorPreview>>
routeVars == <<mediaReq, mediaRes, genResponse, genResult>>
libVars == <<upload, imageCache, workerProc, projectCache>>
svcVars == <<routeVars, libVars>>

vars == <<handler, pc, run, outcome, cancelled, episodeExists, nClips, nPanels,
          novelText, progressLog, llmCalls, auditLogs, parseErrorLogs, flushes,
          rsCaller, rsMeta, rsAsserted, rsResult, assertSinceLLM, signalled, orchStep,
          analyzedCharacters, analyzedLocations, screenplayResults, pendingErr,
          upI, dbCharacters, dbLocations, dbClips, dbStoryboards, dbPanels,
          dbVoiceLines, persistedStoryboards, voiceAttempt, voiceLastError,
          voiceLineRows, voiceLog, txOpen, txVoiceLines, txI,
          jobData, model, llmModel, dbReads, errorPreview, reporterFlaky, reportLost,
          mediaReq, mediaRes, genResponse, genResult,
          upload, imageCache, workerProc, projectCache>>

\* ------------------------------------------------------------------ values
Null == <<>>
NoRows == [parsed |-> FALSE, count |-> 0, rows |-> <<>>]
NoMeta == [stepId |-> "", stepIndex |-> 0, stepTotal |-> 0]
Episode == "e1"
OtherEpisode == "e2"
Names == {"n1", "n2"}
ExistingNames == {"n1"}
\* what an analysis step may return: nothing, or an existing and a new name
AnalyzedNameSets == {{}, Names}
\* job.data and the configuration before the prologue has read them
Unread ==
  [payloadEpisodeId |-> "unread", jobEpisodeId |-> "unread", payloadModel |-> "unread",
   ownModel |-> "unread", userPreference |-> "unread", episodeProject |-> "unread"]

Min(a, b) == IF a < b THEN a ELSE b
Max(a, b) == IF a > b THEN a ELSE b

\* Math.floor((stepIndex / Math.max(1, stepTotal)) * 55) in IEEE doubles: the
\* quotient is rounded before the product, so for these pairs the product
\* falls just below the exact integer and floor() yields one less.
FloatRoundsDown == {<<3, 11>>, <<6, 11>>, <<6, 22>>, <<12, 22>>}

\* a percentage that is not capped at the end of the step band
StepProgressUnclamped(stepIndex, stepTotal) ==
  LET exact == (stepIndex * ProgressStepSpan) \div Max(1, stepTotal)
      scaled == IF <<stepIndex, stepTotal>> \in FloatRoundsDown THEN exact - 1 ELSE exact
  IN ProgressStepBase + scaled

StepProgress(stepIndex, stepTotal) ==
  LET exact == (stepIndex * ProgressStepSpan) \div Max(1, stepTotal)
      scaled == IF <<stepIndex, stepTotal>> \in FloatRoundsDown THEN exact - 1 ELSE exact
  IN ProgressStepBase + Min(ProgressStepSpan, scaled)

\* ------------------------------------------------------------ initial state
InitCharacters == {[name |-> n, run |-> 0] : n \in ExistingNames}
InitLocations == {[name |-> n, run |-> 0] : n \in ExistingNames}
InitClips(k) ==
  {[id |-> <<0, c>>, episodeId |-> Episode, screenplay |-> c, run |-> 0] : c \in 1..k}
InitStoryboards ==
  {[id |-> <<0, 1>>, episodeId |-> Episode, run |-> 0],
   [id |-> <<0, 2>>, episodeId |-> OtherEpisode, run |-> 0]}
InitPanels ==
  {[id |-> <<0, 1, 1>>, storyboardId |-> <<0, 1>>, panelIndex |-> 1,
    episodeId |-> Episode, run |-> 0],
   [id |-> <<0, 2, 1>>, storyboardId |-> <<0, 2>>, panelIndex |-> 1,
    episodeId |-> OtherEpisode, run |-> 0]}
InitVoiceLines ==
  {[id |-> <<0, 1>>, episodeId |-> Episode, lineIndex |-> 1, speaker |-> "A",
    content |-> "x", emotionStrength |-> 5, matchedPanelId |-> <<0, 1, 1>>,
    matchedStoryboardId |-> <<0, 1>>, matchedPanelIndex |-> 1, run |-> 0],
   [id |-> <<0, 2>>, episodeId |-> OtherEpisode, lineIndex |-> 1, speaker |-> "A",
    content |-> "x", emotionStrength |-> 5, matchedPanelId |-> Null,
    matchedStoryboardId |-> Null, matchedPanelIndex |-> 0, run |-> 0]}

JobReset ==
  /\ pc' = "received"
  /\ outcome' = "none"
  /\ cancelled' = FALSE
  /\ nClips' = 0
  /\ nPanels' = 0
  /\ novelText' = FALSE
  /\ progressLog' = <<>>
  /\ llmCalls' = 0
  /\ auditLogs' = 0
  /\ parseErrorLogs' = 0
  /\ flushes' = 0
  /\ rsCaller' = "none"
  /\ rsMeta' = NoMeta
  /\ rsAsserted' = FALSE
  /\ rsResult' = "none"
  /\ assertSinceLLM' = FALSE
  /\ signalled' = FALSE
  /\ orchStep' = 0
  /\ analyzedCharacters' = {}
  /\ analyzedLocations' = {}
  /\ screenplayResults' = <<>>
  /\ pendingErr' = "none"
  /\ upI' = 0
  /\ persistedStoryboards' = {}
  /\ voiceAttempt' = 0
  /\ voiceLastError' = "none"
  /\ voiceLineRows' = NoRows
  /\ voiceLog' = <<>>
  /\ txOpen' = FALSE
  /\ txVoiceLines' = {}
  /\ txI' = 0
  /\ jobData' = Unread
  /\ model' = ""
  /\ llmModel' = "none"
  /\ dbReads' = 0
  /\ errorPreview' = <<>>
  /\ reportLost' = FALSE

\* the first job of the episode, as the worker receives it
InitJob ==
  /\ handler \in {"s2s", "s2b"}
  /\ run = 1
  /\ pc = "received"
  /\ outcome = "none"
  /\ cancelled = FALSE
  /\ episodeExists = TRUE
  /\ nClips = 0
  /\ nPanels = 0
  /\ novelText = FALSE
  /\ progressLog = <<>>
  /\ llmCalls = 0
  /\ auditLogs = 0
  /\ parseErrorLogs = 0
  /\ flushes = 0
  /\ rsCaller = "none"
  /\ rsMeta = NoMeta
  /\ rsAsserted = FALSE
  /\ rsResult = "none"
  /\ assertSinceLLM = FALSE
  /\ signalled = FALSE
  /\ orchStep = 0
  /\ analyzedCharacters = {}
  /\ analyzedLocations = {}
  /\ screenplayResults = <<>>
  /\ pendingErr = "none"
  /\ upI = 0
  /\ dbCharacters = InitCharacters
  /\ dbLocations = InitLocations
  /\ dbClips \in {InitClips(k) : k \in 1..(IF handler = "s2b" THEN MaxClips ELSE 1)}
  /\ dbStoryboards = InitStoryboards
  /\ dbPanels = InitPanels
  /\ dbVoiceLines = InitVoiceLines
  /\ persistedStoryboards = {}
  /\ voiceAttempt = 0
  /\ voiceLastError = "none"
  /\ voiceLineRows = NoRows
  /\ voiceLog = <<>>
  /\ txOpen = FALSE
  /\ txVoiceLines = {}
  /\ txI = 0
  /\ jobData = Unread
  /\ model = ""
  /\ llmModel = "none"
  /\ dbReads = 0
  /\ errorPreview = <<>>
  /\ reportLost = FALSE

\* no request to the media route or to the image generator is under way
NoRequest == [publicId |-> ""]
NoResponse == [pc |-> "idle"]
RoutesIdle ==
  /\ mediaReq = NoRequest
  /\ mediaRes = NoResponse
  /\ genResponse = NoResponse
  /\ genResult = NoResponse
ServicesIdle ==
  /\ RoutesIdle
  /\ upload = NoResponse
  /\ imageCache = NoResponse
  /\ workerProc = NoResponse
  /\ projectCache = NoResponse

\* the progress channel delivers every report
Init == InitJob /\ reporterFlaky = FALSE /\ ServicesIdle

Running == pc \notin {"done", "failed"}

\* throw out of the handler: the job is rejected with the error `err`
Reject(err) ==
  /\ pc' = "failed"
  /\ outcome' = err

dbVars == <<dbCharacters, dbLocations, dbClips, dbStoryboards, dbPanels, dbVoiceLines>>
inputVars == <<handler, run, nClips, nPanels, novelText>>
localVars == <<rsCaller, rsMeta, rsAsserted, rsResult, orchStep, analyzedCharacters,
               analyzedLocations, screenplayResults, pendingErr, upI,
               persistedStoryboards, voiceAttempt, voiceLastError, voiceLineRows,
               txOpen, txVoiceLines, txI>>

\* ------------------------------------------------- validation and loading
\* payload.episodeId || job.data.episodeId || '' through asString and trim
\* (story-to-script); typeof payload.episodeId === 'string' ? payload.episodeId
\* : (job.data.episodeId || '') and trim (script-to-storyboard).
\* Payload values: "absent", "" (empty), " " (blank), "e1"; job value: "" (null) or "e1".
PayloadEpisodeIds == {"absent", "", " ", "e1"}
JobEpisodeIds == {"", "e1"}
Trim(s) == IF s = " " THEN "" ELSE s

\* an episode id that is taken as it comes, blanks included
EpisodeIdOfUntrimmed(h, payloadEpisodeId, jobEpisodeId) ==
  IF payloadEpisodeId \notin {"absent", ""} THEN payloadEpisodeId ELSE jobEpisodeId

EpisodeIdOf(h, payloadEpisodeId, jobEpisodeId) ==
  IF h = "s2s"
  THEN Trim(IF payloadEpisodeId \notin {"absent", ""} THEN payloadEpisodeId ELSE jobEpisodeId)
  ELSE Trim(IF payloadEpisodeId # "absent" THEN payloadEpisodeId ELSE jobEpisodeId)

ValidateEpisodeId ==
  /\ pc = "received"
  /\ \E p \in PayloadEpisodeIds, j \in JobEpisodeIds :
       /\ jobData' = [jobData EXCEPT !.payloadEpisodeId = p, !.jobEpisodeId = j]
       /\ IF EpisodeIdOf(handler, p, j) = ""
          THEN Reject("episodeId is required")
          ELSE pc' = "loadProject" /\ outcome' = outcome
  /\ UNCHANGED <<svcVars, inputVars, model, llmModel, dbReads, errorPreview, envVars, obsVars,
                 histVars, localVars, dbVars>>

LoadProject ==
  /\ pc = "loadProject"
  /\ \E project \in {"missing", "wrongMode", "ok"} :
       CASE project = "missing" -> Reject("Project not found")
         [] project = "wrongMode" -> Reject("Not a novel promotion project")
         [] OTHER -> pc' = "loadNovelData" /\ outcome' = outcome
  /\ dbReads' = dbReads + 1
  /\ UNCHANGED <<svcVars, inputVars, jobData, model, llmModel, errorPreview, envVars, obsVars,
                 histVars, localVars, dbVars>>

LoadNovelData ==
  /\ pc = "loadNovelData"
  /\ \E novelData \in {"missing", "ok"} :
       IF novelData = "missing"
       THEN Reject("Novel promotion data not found")
       ELSE pc' = "loadEpisode" /\ outcome' = outcome
  /\ dbReads' = dbReads + 1
  /\ UNCHANGED <<svcVars, inputVars, jobData, model, llmModel, errorPreview, envVars, obsVars,
                 histVars, localVars, dbVars>>

EpisodeClips == {c \in dbClips : c.episodeId = Episode}

\* a handler that checks only that the episode exists
LoadEpisodeAnyProject ==
  /\ pc = "loadEpisode"
  /\ \E sameProject \in BOOLEAN, text \in BOOLEAN :
       /\ jobData' = [jobData EXCEPT !.episodeProject =
                         IF ~episodeExists THEN "none"
                         ELSE IF sameProject THEN "own" ELSE "other"]
       /\ IF ~episodeExists
          THEN Reject("Episode not found") /\ UNCHANGED <<nClips, novelText>>
          ELSE IF handler = "s2b" /\ EpisodeClips = {}
          THEN Reject("No clips found") /\ UNCHANGED <<nClips, novelText>>
          ELSE /\ pc' = "resolveModel"
               /\ outcome' = outcome
               /\ novelText' = (handler = "s2b" /\ text)
               /\ nClips' = IF handler = "s2b" THEN Cardinality(EpisodeClips) ELSE nClips
  /\ dbReads' = dbReads + 1
  /\ UNCHANGED <<svcVars, handler, run, nPanels, model, llmModel, errorPreview, envVars,
                 obsVars, histVars, localVars, dbVars>>

\* the episode is loaded by id; it must exist and belong to the project of the job
LoadEpisode ==
  /\ pc = "loadEpisode"
  /\ \E sameProject \in BOOLEAN, text \in BOOLEAN :
       /\ jobData' = [jobData EXCEPT !.episodeProject =
                         IF ~episodeExists THEN "none"
                         ELSE IF sameProject THEN "own" ELSE "other"]
       /\ IF ~episodeExists \/ ~sameProject
          THEN Reject("Episode not found") /\ UNCHANGED <<nClips, novelText>>
          ELSE IF handler = "s2b" /\ EpisodeClips = {}
          THEN Reject("No clips found") /\ UNCHANGED <<nClips, novelText>>
          ELSE /\ pc' = "resolveModel"
               /\ outcome' = outcome
               /\ novelText' = (handler = "s2b" /\ text)
               /\ nClips' = IF handler = "s2b" THEN Cardinality(EpisodeClips) ELSE nClips
  /\ dbReads' = dbReads + 1
  /\ UNCHANGED <<svcVars, handler, run, nPanels, model, llmModel, errorPreview, envVars,
                 obsVars, histVars, localVars, dbVars>>

\* payload.model as the job carries it; inputModel is its trimmed value
InputModels == {"", " ", "m1"}
\* what getProjectModelConfig may return as analysisModel
ConfigModels == {"null", "", "m2"}
\* novelData.analysisModel, the project's own setting
OwnModels == {"null", "m2"}

\* getProjectModelConfig(projectId, userId).analysisModel: the project's own
\* model when it has one, otherwise the model of the user's preferences
GetProjectModelConfig(ownModel, userPreference) ==
  IF ownModel # "null" THEN ownModel ELSE userPreference

\* inputModel || projectModelConfig.analysisModel || ''
\* a resolution that prefers the configuration to the request
ResolvedModelConfigFirst(inputModel, configModel) ==
  IF configModel \notin {"null", ""} THEN configModel ELSE inputModel

\* a resolution that falls back to a built-in model
ResolvedModelWithDefault(inputModel, configModel) ==
  IF inputModel # "" THEN inputModel
  ELSE IF configModel \notin {"null", ""} THEN configModel
  ELSE "m2"

ResolvedModel(inputModel, configModel) ==
  IF inputModel # "" THEN inputModel
  ELSE IF configModel \notin {"null", ""} THEN configModel
  ELSE ""

ResolveModel ==
  /\ pc = "resolveModel"
  /\ \E payloadModel \in InputModels, ownModel \in OwnModels, userPreference \in ConfigModels :
       /\ jobData' = [jobData EXCEPT !.payloadModel = payloadModel, !.ownModel = ownModel,
                                      !.userPreference = userPreference]
       /\ model' = ResolvedModel(Trim(payloadModel),
                                 GetProjectModelConfig(ownModel, userPreference))
  /\ IF model' = ""
     THEN Reject("analysisModel is not configured")
     ELSE /\ pc' = IF handler = "s2s" THEN "checkContent" ELSE "reportPrepare"
          /\ outcome' = outcome
  /\ dbReads' = dbReads + 1
  /\ UNCHANGED <<svcVars, inputVars, llmModel, errorPreview, envVars, obsVars, histVars, localVars,
                 dbVars>>

\* mergedContent = contentRaw.trim() || (episode.novelText || ''); the novel
\* text of the episode is read here and nowhere else in story-to-script
CheckContent ==
  /\ pc = "checkContent"
  /\ handler = "s2s"
  /\ \E contentGiven \in BOOLEAN, episodeText \in BOOLEAN :
       IF ~contentGiven /\ ~episodeText
       THEN Reject("content is required")
       ELSE pc' = "reportPrepare" /\ outcome' = outcome
  /\ UNCHANGED <<svcVars, inputVars, jobVars, envVars, obsVars, histVars, localVars, dbVars>>

\* reportTaskProgress(job, percent, meta): best-effort.  The call is recorded;
\* on a flaky channel the report may not be delivered, which the reporter
\* keeps to itself: the call returns normally either way
ReportTaskProgress(percent) ==
  /\ progressLog' = Append(progressLog, percent)
  /\ \E delivered \in (IF reporterFlaky THEN BOOLEAN ELSE {TRUE}) :
       reportLost' = (reportLost \/ ~delivered)

\* the prologue ends here: payload and configuration are not read again, and
\* the model keeps only what the rest of the handler uses (the resolved model)
ReportPrepare ==
  /\ pc = "reportPrepare"
  /\ ReportTaskProgress(ProgressPrepare)
  /\ pc' = "orchStart"
  /\ jobData' = Unread
  /\ UNCHANGED <<svcVars, handler, run, nClips, nPanels, novelText, model, llmModel, dbReads,
                 errorPreview, outcome, cancelled, episodeExists, reporterFlaky, llmCalls,
                 auditLogs, parseErrorLogs, flushes, histVars, localVars, dbVars>>

\* ------------------------------------------------------------ orchestrators
\* story-to-script: characters, locations, clip segmentation, then one
\* screenplay step per clip.  script-to-storyboard: plan, cinematography,
\* acting direction and detail for each clip.
PipelineSteps == 3
PhasesPerClip == 4

OrchTotal ==
  IF handler = "s2s" THEN PipelineSteps + nClips ELSE PhasesPerClip * nClips

\* the orchestrator is entered; the number of clips the text segments into is
\* a property of the content
OrchStart ==
  /\ pc = "orchStart"
  /\ pc' = "orch"
  /\ IF handler = "s2s" THEN nClips' \in 0..MaxClips ELSE nClips' = nClips
  /\ UNCHANGED <<svcVars, handler, run, nPanels, novelText, jobVars, outcome, envVars, obsVars,
                 histVars, localVars, dbVars>>

\* the orchestrator calls runStep for its next step
OrchCallStep ==
  /\ pc = "orch"
  /\ orchStep < OrchTotal
  /\ rsCaller' = "orch"
  /\ rsMeta' = [stepId |-> "step_" \o ToString(orchStep + 1),
                stepIndex |-> orchStep + 1, stepTotal |-> OrchTotal]
  /\ rsAsserted' = FALSE
  /\ rsResult' = "none"
  /\ pc' = "rs_assert"
  /\ UNCHANGED <<svcVars, inputVars, jobVars, outcome, envVars, obsVars, histVars, orchVars, upI,
                 voiceVars, txVars, dbVars>>

\* per-clip catch of the story-to-script orchestrator: a failure of a
\* screenplay step is recorded as data; the cancellation signal is re-thrown
OrchCatchClip(result) ==
  IF result = "TaskTerminated"
  THEN /\ pendingErr' = result
       /\ pc' = "flush"
       /\ UNCHANGED <<orchStep, screenplayResults>>
  ELSE /\ screenplayResults' = Append(screenplayResults, IF result = "ok" THEN "ok" ELSE "fail")
       /\ orchStep' = orchStep + 1
       /\ pc' = "orch"
       /\ UNCHANGED pendingErr

\* runStep has returned or thrown into the story-to-script orchestrator
OrchReturnS2S ==
  /\ pc = "orch_ret"
  /\ handler = "s2s"
  /\ IF orchStep + 1 > PipelineSteps
     THEN OrchCatchClip(rsResult) /\ UNCHANGED <<analyzedCharacters, analyzedLocations>>
     ELSE IF rsResult = "ok"
     THEN /\ orchStep' = orchStep + 1
          /\ pc' = "orch"
          /\ analyzedCharacters' \in
               IF orchStep + 1 = 1 THEN AnalyzedNameSets ELSE {analyzedCharacters}
          /\ analyzedLocations' \in
               IF orchStep + 1 = 2 THEN AnalyzedNameSets ELSE {analyzedLocations}
          /\ UNCHANGED <<screenplayResults, pendingErr>>
     ELSE /\ pendingErr' = IF rsResult = "badjson" THEN "ORCHESTRATOR_ERROR" ELSE rsResult
          /\ pc' = "flush"
          /\ UNCHANGED <<orchStep, analyzedCharacters, analyzedLocations, screenplayResults>>
  /\ rsCaller' = "none"
  /\ UNCHANGED <<svcVars, inputVars, jobVars, outcome, envVars, obsVars, histVars, rsMeta, rsAsserted,
                 rsResult, upI, voiceVars, txVars, dbVars>>

\* runStep has returned or thrown into the script-to-storyboard orchestrator;
\* a text that does not parse raises JsonParseError
OrchReturnS2B ==
  /\ pc = "orch_ret"
  /\ handler = "s2b"
  /\ IF rsResult = "ok"
     THEN /\ orchStep' = orchStep + 1
          /\ pc' = "orch"
          /\ nPanels' \in IF orchStep + 1 = OrchTotal THEN 1..MaxPanels ELSE {nPanels}
          /\ UNCHANGED pendingErr
     ELSE /\ pendingErr' = IF rsResult = "badjson" THEN "JsonParseError" ELSE rsResult
          /\ pc' = "orch_catch"
          /\ UNCHANGED <<orchStep, nPanels>>
  /\ rsCaller' = "none"
  /\ UNCHANGED <<svcVars, handler, run, nClips, novelText, jobVars, outcome, envVars, obsVars, histVars,
                 rsMeta, rsAsserted, rsResult, analyzedCharacters, analyzedLocations,
                 screenplayResults, upI, voiceVars, txVars, dbVars>>

\* the orchestrator returns its result
OrchFinish ==
  /\ pc = "orch"
  /\ orchStep = OrchTotal
  /\ pendingErr' = "none"
  /\ pc' = "flush"
  /\ UNCHANGED <<svcVars, inputVars, jobVars, outcome, envVars, obsVars, histVars, rsVars, orchStep,
                 analyzedCharacters, analyzedLocations, screenplayResults, upI,
                 voiceVars, txVars, dbVars>>

\* a catch that writes the parse-error entry for every error
OrchCatchS2BLogsAll ==
  /\ pc = "orch_catch"
  /\ handler = "s2b"
  /\ parseErrorLogs' = parseErrorLogs + 1
  /\ pc' = "flush"
  /\ UNCHANGED <<svcVars, inputVars, jobVars, outcome, envVars, progressLog, llmCalls, auditLogs, flushes,
                 histVars, localVars, dbVars>>

\* catch (err) of handleScriptToStoryboardTask: log a JsonParseError, rethrow
OrchCatchS2B ==
  /\ pc = "orch_catch"
  /\ handler = "s2b"
  /\ parseErrorLogs' = IF pendingErr = "JsonParseError" THEN parseErrorLogs + 1 ELSE parseErrorLogs
  /\ pc' = "flush"
  /\ UNCHANGED <<svcVars, inputVars, jobVars, outcome, envVars, progressLog, llmCalls, auditLogs, flushes,
                 histVars, localVars, dbVars>>

\* a flush placed after the orchestrator call instead of in a finally block
FlushOnReturnOnly ==
  /\ pc = "flush"
  /\ flushes' = IF pendingErr # "none" THEN flushes ELSE flushes + 1
  /\ IF pendingErr # "none"
     THEN Reject(pendingErr)
     ELSE /\ pc' = IF handler = "s2s" THEN "checkPartial" ELSE "reportPersist"
          /\ outcome' = outcome
  /\ UNCHANGED <<svcVars, inputVars, jobVars, envVars, progressLog, llmCalls, auditLogs, parseErrorLogs,
                 histVars, localVars, dbVars>>

\* finally { await callbacks.flush() }
Flush ==
  /\ pc = "flush"
  /\ flushes' = flushes + 1
  /\ IF pendingErr # "none"
     THEN Reject(pendingErr)
     ELSE /\ pc' = IF handler = "s2s" THEN "checkPartial" ELSE "reportPersist"
          /\ outcome' = outcome
  /\ UNCHANGED <<svcVars, inputVars, jobVars, envVars, progressLog, llmCalls, auditLogs, parseErrorLogs,
                 histVars, localVars, dbVars>>

\* ------------------------------------------------------------------ runStep
\* runStep throws: the error reaches the caller of runStep
RunStepThrow(err) ==
  /\ rsResult' = err
  /\ pc' = IF rsCaller = "orch" THEN "orch_ret" ELSE "voice_ret"

\* a runStep that goes on to the report without the liveness check
RunStepAssertOmitted ==
  /\ pc = "rs_assert"
  /\ pc' = "rs_report"
  /\ UNCHANGED <<svcVars, inputVars, jobVars, outcome, envVars, obsVars, histVars, rsVars, orchVars, upI,
                 voiceVars, txVars, dbVars>>

\* await assertTaskActive(job, `..._step:${meta.stepId}`)
RunStepAssert ==
  /\ pc = "rs_assert"
  /\ IF cancelled
     THEN /\ signalled' = TRUE
          /\ RunStepThrow("TaskTerminated")
          /\ UNCHANGED <<rsAsserted, assertSinceLLM>>
     ELSE /\ rsAsserted' = TRUE
          /\ assertSinceLLM' = TRUE
          /\ pc' = "rs_report"
          /\ UNCHANGED <<signalled, rsResult>>
  /\ UNCHANGED <<svcVars, inputVars, jobVars, outcome, envVars, obsVars, rsCaller, rsMeta, orchVars, upI,
                 voiceVars, voiceLog, txVars, dbVars>>

\* await reportTaskProgress(job, progress, {...})
RunStepReport ==
  /\ pc = "rs_report"
  /\ ReportTaskProgress(StepProgress(rsMeta.stepIndex, rsMeta.stepTotal))
  /\ pc' = "rs_logPrompt"
  /\ UNCHANGED <<svcVars, inputVars, jobVars, outcome, cancelled, episodeExists, reporterFlaky, llmCalls,
                 auditLogs, parseErrorLogs, flushes, histVars, localVars, dbVars>>

\* logAIAnalysis(... PROMPT ...)
RunStepLogPrompt ==
  /\ pc = "rs_logPrompt"
  /\ auditLogs' = auditLogs + 1
  /\ pc' = "rs_llm"
  /\ UNCHANGED <<svcVars, inputVars, jobVars, outcome, envVars, progressLog, llmCalls, parseErrorLogs,
                 flushes, histVars, localVars, dbVars>>

\* await chatCompletion(...); getCompletionParts(completion)
RunStepChat ==
  /\ pc = "rs_llm"
  /\ llmCalls' = llmCalls + 1
  /\ llmModel' = model
  /\ assertSinceLLM' = FALSE
  /\ \E completion \in {"LLM_ERROR", "ok", "badjson"} :
       IF completion = "LLM_ERROR"
       THEN RunStepThrow("LLM_ERROR")
       ELSE rsResult' = completion /\ pc' = "rs_logOutput"
  /\ UNCHANGED <<svcVars, inputVars, jobData, model, dbReads, errorPreview, outcome, envVars, progressLog, auditLogs, parseErrorLogs,
                 flushes, signalled, voiceLog, rsCaller, rsMeta, rsAsserted, orchVars, upI,
                 voiceVars, txVars, dbVars>>

\* logAIAnalysis(... OUTPUT ...); return { text, reasoning }
RunStepLogOutput ==
  /\ pc = "rs_logOutput"
  /\ auditLogs' = auditLogs + 1
  /\ pc' = IF rsCaller = "orch" THEN "orch_ret" ELSE "voice_ret"
  /\ UNCHANGED <<svcVars, inputVars, jobVars, outcome, envVars, progressLog, llmCalls, parseErrorLogs,
                 flushes, histVars, localVars, dbVars>>

\* ------------------------------------------- story-to-script: after the run
\* a screenplay result is "ok", "fail" (success false, with an error text) or
\* "fail_blank" (success false, no error text); clip k is the k-th result
FailedCount == Cardinality({i \in DOMAIN screenplayResults : screenplayResults[i] # "ok"})

RECURSIVE Filter(_, _)
\* result.screenplayResults.filter((item) => !item.success), as clip indices
Filter(results, from) ==
  IF from > Len(results) THEN <<>>
  ELSE IF results[from] # "ok" THEN <<from>> \o Filter(results, from + 1)
  ELSE Filter(results, from + 1)

\* a preview that is not cut
SliceAll(seq, limit) == seq

\* failed.slice(0, 3)
Slice(seq, limit) == SubSeq(seq, 1, Min(limit, Len(seq)))

\* `${item.clipId}:${item.error || 'unknown error'}`
PreviewEntry(results, k) ==
  [clipId |-> k, reason |-> IF results[k] = "fail" THEN "error" ELSE "unknown error"]

Preview(results) ==
  LET failed == Slice(Filter(results, 1), PreviewLimit)
  IN [i \in 1..Len(failed) |-> PreviewEntry(results, failed[i])]

\* result.summary of the story-to-script orchestrator: the counts are derived
\* from clipList and from the final per-clip records
Summary ==
  [clipCount |-> nClips,
   screenplaySuccessCount |->
     Cardinality({i \in DOMAIN screenplayResults : screenplayResults[i] = "ok"}),
   screenplayFailedCount |-> FailedCount]

\* the counts of the object handleStoryToScriptTask returns
ReturnValue ==
  [episodeId |-> Episode,
   clipCount |-> Summary.clipCount,
   screenplaySuccessCount |-> Summary.screenplaySuccessCount,
   screenplayFailedCount |-> Summary.screenplayFailedCount]

\* a handler that tolerates one failed screenplay step
CheckPartialTolerant ==
  /\ pc = "checkPartial"
  /\ handler = "s2s"
  /\ IF FailedCount > 1
     THEN Reject("STORY_TO_SCRIPT_PARTIAL_FAILED") /\ errorPreview' = Preview(screenplayResults)
     ELSE pc' = "reportPersist" /\ outcome' = outcome /\ UNCHANGED errorPreview
  /\ UNCHANGED <<svcVars, inputVars, jobData, model, llmModel, dbReads, envVars, obsVars, histVars,
                 localVars, dbVars>>

\* a handler that goes on to persistence whatever the summary says
CheckPartialIgnored ==
  /\ pc = "checkPartial"
  /\ handler = "s2s"
  /\ pc' = "reportPersist"
  /\ UNCHANGED <<svcVars, inputVars, jobVars, outcome, envVars, obsVars, histVars, localVars, dbVars>>

\* if (result.summary.screenplayFailedCount > 0) throw STORY_TO_SCRIPT_PARTIAL_FAILED
CheckPartial ==
  /\ pc = "checkPartial"
  /\ handler = "s2s"
  /\ IF FailedCount > 0
     THEN Reject("STORY_TO_SCRIPT_PARTIAL_FAILED") /\ errorPreview' = Preview(screenplayResults)
     ELSE pc' = "reportPersist" /\ outcome' = outcome /\ UNCHANGED errorPreview
  /\ UNCHANGED <<svcVars, inputVars, jobData, model, llmModel, dbReads, envVars, obsVars, histVars,
                 localVars, dbVars>>

\* a handler for which a report that fails is fatal
ReportPersistAborts ==
  /\ pc = "reportPersist"
  /\ ReportTaskProgress(ProgressPersist)
  /\ IF reportLost' /\ ~reportLost
     THEN Reject("PROGRESS_ERROR")
     ELSE pc' = "assertPersist" /\ outcome' = outcome
  /\ UNCHANGED <<svcVars, inputVars, jobVars, cancelled, episodeExists, reporterFlaky, llmCalls,
                 auditLogs, parseErrorLogs, flushes, histVars, localVars, dbVars>>

\* await reportTaskProgress(job, 80, {...})
ReportPersist ==
  /\ pc = "reportPersist"
  /\ ReportTaskProgress(ProgressPersist)
  /\ pc' = "assertPersist"
  /\ UNCHANGED <<svcVars, inputVars, jobVars, outcome, cancelled, episodeExists, reporterFlaky, llmCalls,
                 auditLogs, parseErrorLogs, flushes, histVars, localVars, dbVars>>

\* a checkpoint whose cancellation signal is caught and dropped
AssertPersistSwallowed ==
  /\ pc = "assertPersist"
  /\ signalled' = (signalled \/ cancelled)
  /\ assertSinceLLM' = (assertSinceLLM \/ ~cancelled)
  /\ pc' = IF handler = "s2s" THEN "recheckEpisode" ELSE "persistStoryboards"
  /\ UNCHANGED <<svcVars, inputVars, jobVars, outcome, envVars, obsVars, voiceLog, localVars, dbVars>>

\* await assertTaskActive(job, '..._persist')
AssertPersist ==
  /\ pc = "assertPersist"
  /\ IF cancelled
     THEN /\ signalled' = TRUE
          /\ Reject("TaskTerminated")
          /\ UNCHANGED assertSinceLLM
     ELSE /\ assertSinceLLM' = TRUE
          /\ pc' = IF handler = "s2s" THEN "recheckEpisode" ELSE "persistStoryboards"
          /\ UNCHANGED <<signalled, outcome>>
  /\ UNCHANGED <<svcVars, inputVars, jobVars, envVars, obsVars, voiceLog, localVars, dbVars>>

\* a handler that reads the episode again but goes on whatever it finds
RecheckEpisodeSkipped ==
  /\ pc = "recheckEpisode"
  /\ handler = "s2s"
  /\ pc' = "persistCharacters"
  /\ dbReads' = dbReads + 1
  /\ UNCHANGED <<svcVars, inputVars, jobData, model, llmModel, errorPreview, outcome, envVars, obsVars,
                 histVars, localVars, dbVars>>

\* episodeStillExists = await prisma.novelPromotionEpisode.findUnique(...)
RecheckEpisode ==
  /\ pc = "recheckEpisode"
  /\ handler = "s2s"
  /\ IF ~episodeExists
     THEN Reject("NOT_FOUND")
     ELSE pc' = "persistCharacters" /\ outcome' = outcome
  /\ dbReads' = dbReads + 1
  /\ UNCHANGED <<svcVars, inputVars, jobData, model, llmModel, errorPreview, envVars, obsVars,
                 histVars, localVars, dbVars>>

NamesOf(rows) == {r.name : r \in rows}

\* rows persistAnalyzedCharacters / persistAnalyzedLocations create: the
\* analyzed names that are not among the existing names
NewNamedRows(existing, analyzed) ==
  {[name |-> n, run |-> run] : n \in analyzed \ NamesOf(existing)}

PersistCharacters ==
  /\ pc = "persistCharacters"
  /\ dbCharacters' = dbCharacters \cup NewNamedRows(dbCharacters, analyzedCharacters)
  /\ pc' = "persistLocations"
  /\ UNCHANGED <<svcVars, inputVars, jobVars, outcome, envVars, obsVars, histVars, localVars, dbLocations,
                 dbClips, dbStoryboards, dbPanels, dbVoiceLines>>

PersistLocations ==
  /\ pc = "persistLocations"
  /\ dbLocations' = dbLocations \cup NewNamedRows(dbLocations, analyzedLocations)
  /\ pc' = "persistClips"
  /\ UNCHANGED <<svcVars, inputVars, jobVars, outcome, envVars, obsVars, histVars, localVars, dbCharacters,
                 dbClips, dbStoryboards, dbPanels, dbVoiceLines>>

\* rows persistClips creates for the episode, replacing its former clips
NewClipRows ==
  {[id |-> <<run, k>>, episodeId |-> Episode, screenplay |-> 0, run |-> run] : k \in 1..nClips}

\* createdClipRows = await persistClips({ episodeId, clipList }); a clip cannot
\* be created under an episode that no longer exists (foreign key)
PersistClips ==
  /\ pc = "persistClips"
  /\ IF ~episodeExists
     THEN Reject("DB_ERROR") /\ UNCHANGED <<dbClips, upI>>
     ELSE /\ dbClips' = (dbClips \ EpisodeClips) \cup NewClipRows
          /\ upI' = 1
          /\ pc' = "updateScreenplay"
          /\ outcome' = outcome
  /\ UNCHANGED <<svcVars, inputVars, jobVars, envVars, obsVars, histVars, rsVars, orchVars, voiceVars, txVars,
                 dbCharacters, dbLocations, dbStoryboards, dbPanels, dbVoiceLines>>

\* resolveClipRecordId(clipIdMap, clipId): the row created for the clip
ResolveClipRecordId(k) == <<run, k>>

\* a loop that stores every screenplay on the first row created
UpdateScreenplayFirstRow ==
  /\ pc = "updateScreenplay"
  /\ upI <= Len(screenplayResults)
  /\ IF screenplayResults[upI] # "ok"
     THEN /\ upI' = upI + 1
          /\ UNCHANGED <<pc, outcome, dbClips>>
     ELSE IF \E c \in dbClips : c.id = ResolveClipRecordId(1)
     THEN /\ dbClips' = {IF c.id = ResolveClipRecordId(1)
                         THEN [c EXCEPT !.screenplay = upI] ELSE c : c \in dbClips}
          /\ upI' = upI + 1
          /\ UNCHANGED <<pc, outcome>>
     ELSE /\ Reject("DB_ERROR")
          /\ UNCHANGED <<upI, dbClips>>
  /\ UNCHANGED <<svcVars, inputVars, jobVars, envVars, obsVars, histVars, rsVars, orchVars, voiceVars, txVars,
                 dbCharacters, dbLocations, dbStoryboards, dbPanels, dbVoiceLines>>

\* one iteration of: for (const screenplayResult of result.screenplayResults)
UpdateScreenplay ==
  /\ pc = "updateScreenplay"
  /\ upI <= Len(screenplayResults)
  /\ IF screenplayResults[upI] # "ok"
     THEN /\ upI' = upI + 1
          /\ UNCHANGED <<pc, outcome, dbClips>>
     ELSE IF \E c \in dbClips : c.id = ResolveClipRecordId(upI)
     THEN /\ dbClips' = {IF c.id = ResolveClipRecordId(upI)
                         THEN [c EXCEPT !.screenplay = upI] ELSE c : c \in dbClips}
          /\ upI' = upI + 1
          /\ UNCHANGED <<pc, outcome>>
     ELSE /\ Reject("DB_ERROR")
          /\ UNCHANGED <<upI, dbClips>>
  /\ UNCHANGED <<svcVars, inputVars, jobVars, envVars, obsVars, histVars, rsVars, orchVars, voiceVars, txVars,
                 dbCharacters, dbLocations, dbStoryboards, dbPanels, dbVoiceLines>>

UpdateScreenplayDone ==
  /\ pc = "updateScreenplay"
  /\ upI > Len(screenplayResults)
  /\ pc' = "reportDone"
  /\ UNCHANGED <<svcVars, inputVars, jobVars, outcome, envVars, obsVars, histVars, localVars, dbVars>>

\* await reportTaskProgress(job, 96, {...}); return {...}
ReportDone ==
  /\ pc = "reportDone"
  /\ ReportTaskProgress(ProgressPersistDone)
  /\ pc' = "done"
  /\ outcome' = "done"
  /\ UNCHANGED <<svcVars, inputVars, jobVars, cancelled, episodeExists, reporterFlaky, llmCalls,
                 auditLogs, parseErrorLogs, flushes, histVars, localVars, dbVars>>

\* --------------------------------------- script-to-storyboard: after the run
EpisodeStoryboards == {b \in dbStoryboards : b.episodeId = Episode}
EpisodePanels == {q \in dbPanels : q.episodeId = Episode}
EpisodeVoiceLines(table) == {v \in table : v.episodeId = Episode}

NewStoryboardRows ==
  {[id |-> <<run, c>>, episodeId |-> Episode, run |-> run] : c \in 1..nClips}
NewPanelRows ==
  {[id |-> <<run, c, i>>, storyboardId |-> <<run, c>>, panelIndex |-> i,
    episodeId |-> Episode, run |-> run] : c \in 1..nClips, i \in 1..nPanels}

\* return value of persistStoryboardsAndPanels: the storyboards with their panels
PersistedStoryboardsOf(storyboards, panels) ==
  {[storyboardId |-> b.id,
    panels |-> {[id |-> q.id, panelIndex |-> q.panelIndex] : q \in {x \in panels : x.storyboardId = b.id}}]
   : b \in storyboards}

\* persistedStoryboards = await persistStoryboardsAndPanels({episodeId, clipPanels}):
\* replaces the storyboards and panels of the episode, in a transaction of its own
PersistStoryboards ==
  /\ pc = "persistStoryboards"
  /\ handler = "s2b"
  /\ IF ~episodeExists
     THEN /\ Reject("DB_ERROR")
          /\ UNCHANGED <<dbStoryboards, dbPanels, persistedStoryboards>>
     ELSE /\ dbStoryboards' = (dbStoryboards \ EpisodeStoryboards) \cup NewStoryboardRows
          /\ dbPanels' = (dbPanels \ EpisodePanels) \cup NewPanelRows
          /\ persistedStoryboards' = PersistedStoryboardsOf(NewStoryboardRows, NewPanelRows)
          /\ pc' = "checkNovelText"
          /\ outcome' = outcome
  /\ UNCHANGED <<svcVars, inputVars, jobVars, envVars, obsVars, histVars, rsVars, orchVars, upI, voiceAttempt,
                 voiceLastError, voiceLineRows, txVars, dbCharacters, dbLocations, dbClips,
                 dbVoiceLines>>

\* if (!episode.novelText || !episode.novelText.trim()) throw
CheckNovelText ==
  /\ pc = "checkNovelText"
  /\ IF ~novelText
     THEN Reject("No novel text to analyze") /\ UNCHANGED voiceAttempt
     ELSE /\ voiceAttempt' = 1
          /\ pc' = "voiceLoop"
          /\ outcome' = outcome
  /\ UNCHANGED <<svcVars, inputVars, jobVars, envVars, obsVars, histVars, rsVars, orchVars, upI,
                 persistedStoryboards, voiceLastError, voiceLineRows, txVars, dbVars>>

\* a retry reported under the stepId of the first attempt
VoiceStepIdSame(attempt) ==
  "voice_analyze"

\* meta.stepId of voice attempt `attempt`
VoiceStepId(attempt) ==
  IF attempt = 1 THEN "voice_analyze" ELSE "voice_analyze_r" \o ToString(attempt)

\* for (let voiceAttempt = 1; voiceAttempt <= 2; voiceAttempt++) { runStep(meta, ...)
VoiceCallStep ==
  /\ pc = "voiceLoop"
  /\ voiceAttempt <= MaxVoiceAttempts
  /\ rsCaller' = "voice"
  /\ rsMeta' = [stepId |-> VoiceStepId(voiceAttempt), stepIndex |-> OrchTotal,
                stepTotal |-> OrchTotal]
  /\ rsAsserted' = FALSE
  /\ rsResult' = "none"
  /\ pc' = "rs_assert"
  /\ UNCHANGED <<svcVars, inputVars, jobVars, outcome, envVars, obsVars, histVars, orchVars, upI, voiceVars,
                 txVars, dbVars>>

\* ---- voice lines as the model returns them
NotANumber == 0 - 1000
NoPanel == [present |-> FALSE, storyboardId |-> Null, panelIndex |-> 0]
CurrentRef == [present |-> TRUE, storyboardId |-> <<run, 1>>, panelIndex |-> 1]
StaleRef == [present |-> TRUE, storyboardId |-> <<0, 2>>, panelIndex |-> 1]
BlankRef == [present |-> TRUE, storyboardId |-> Null, panelIndex |-> 1]

\* emotionStrength and lineIndex are in tenths (5 is 0.5, 10 is 1.0)
VoiceRow(mp, emotion) ==
  [matchedPanel |-> mp, emotionStrength |-> emotion, lineIndex |-> 10,
   speaker |-> "A", content |-> "x"]

\* a row that names a panel of the job, whose emotionStrength (1.5) is above
\* the range and whose lineIndex (1.5) is not an integer
OffRangeRow ==
  [matchedPanel |-> CurrentRef, emotionStrength |-> 15, lineIndex |-> 15,
   speaker |-> "A", content |-> "x"]

VoiceRowPool ==
  {VoiceRow(NoPanel, 5), OffRangeRow, VoiceRow(StaleRef, 5),
   VoiceRow(BlankRef, 5), VoiceRow(NoPanel, NotANumber)}

\* parseVoiceLinesJson(text): the list of rows of the text.  The model keeps
\* the length of the list and the rows the handler has read so far; the
\* content of a row is drawn from VoiceRowPool when the loop first reads it.
ParsedVoiceLines == {[parsed |-> TRUE, count |-> n, rows |-> <<>>] : n \in 0..MaxVoiceLines}

\* a catch that treats the cancellation signal like any other error
VoiceCatchRetriesAll(error) ==
  /\ voiceLastError' = error
  /\ voiceAttempt' = voiceAttempt + 1
  /\ pc' = "voiceLoop"
  /\ outcome' = outcome

\* a catch that gives up on the first error
VoiceCatchNoRetry(error) ==
  /\ Reject(error)
  /\ UNCHANGED <<svcVars, voiceAttempt, voiceLastError>>

\* the catch of the voice loop: the cancellation signal is re-thrown, any
\* other error is kept as voiceLastError and the loop goes on
VoiceCatch(error) ==
  IF error = "TaskTerminated"
  THEN /\ Reject(error)
       /\ UNCHANGED <<voiceAttempt, voiceLastError>>
  ELSE /\ voiceLastError' = error
       /\ voiceAttempt' = voiceAttempt + 1
       /\ pc' = "voiceLoop"
       /\ outcome' = outcome

\* voiceLineRows = parseVoiceLinesJson(voiceOutput.text); break  -- or the catch
VoiceReturn ==
  /\ pc = "voice_ret"
  /\ IF rsResult = "ok"
     THEN /\ voiceLineRows' \in ParsedVoiceLines
          /\ pc' = "voiceCheck"
          /\ UNCHANGED <<outcome, voiceAttempt, voiceLastError>>
     ELSE /\ VoiceCatch(IF rsResult = "badjson" THEN "VOICE_PARSE_ERROR" ELSE rsResult)
          /\ UNCHANGED voiceLineRows
  /\ rsCaller' = "none"
  /\ voiceLog' = Append(voiceLog, IF rsResult = "badjson" THEN "VOICE_PARSE_ERROR" ELSE rsResult)
  /\ UNCHANGED <<svcVars, inputVars, jobVars, envVars, obsVars, assertSinceLLM, signalled, rsMeta, rsAsserted,
                 rsResult, orchVars, upI, persistedStoryboards, txVars, dbVars>>

\* the loop ends after MaxVoiceAttempts failed attempts
VoiceLoopExit ==
  /\ pc = "voiceLoop"
  /\ voiceAttempt > MaxVoiceAttempts
  /\ pc' = "voiceCheck"
  /\ UNCHANGED <<svcVars, inputVars, jobVars, outcome, envVars, obsVars, histVars, localVars, dbVars>>

\* if (!voiceLineRows) throw voiceLastError!
VoiceCheck ==
  /\ pc = "voiceCheck"
  /\ IF voiceLineRows = NoRows
     THEN Reject(voiceLastError)
     ELSE pc' = "assertVoicePersist" /\ outcome' = outcome
  /\ UNCHANGED <<svcVars, inputVars, jobVars, envVars, obsVars, histVars, localVars, dbVars>>

\* a handler that opens the voice-line transaction without the checkpoint
AssertVoicePersistOmitted ==
  /\ pc = "assertVoicePersist"
  /\ pc' = "txBegin"
  /\ UNCHANGED <<svcVars, inputVars, jobVars, outcome, envVars, obsVars, histVars, localVars, dbVars>>

\* await assertTaskActive(job, 'script_to_storyboard_voice_persist')
AssertVoicePersist ==
  /\ pc = "assertVoicePersist"
  /\ IF cancelled
     THEN /\ signalled' = TRUE
          /\ Reject("TaskTerminated")
          /\ UNCHANGED assertSinceLLM
     ELSE /\ assertSinceLLM' = TRUE
          /\ pc' = "txBegin"
          /\ UNCHANGED <<signalled, outcome>>
  /\ UNCHANGED <<svcVars, inputVars, jobVars, envVars, obsVars, voiceLog, localVars, dbVars>>

\* ------------------------------------------------- voice-line $transaction
\* a lookup in the panel table instead of the map of the rows just created
ResolvePanelIdFromDatabase(storyboardId, panelIndex) ==
  LET hits == {p.id : p \in {q \in dbPanels : /\ q.storyboardId = storyboardId
                                               /\ q.panelIndex = panelIndex}}
  IN IF hits = {} THEN Null ELSE CHOOSE id \in hits : TRUE

\* panelIdByStoryboardPanel.get(`${storyboardId}:${panelIndex}`), Null when absent
ResolvePanelId(storyboardId, panelIndex) ==
  LET hits == {q.id : q \in UNION {{p \in b.panels : p.panelIndex = panelIndex}
                                   : b \in {x \in persistedStoryboards : x.storyboardId = storyboardId}}}
  IN IF hits = {} THEN Null ELSE CHOOSE id \in hits : TRUE

\* toPositiveInt(value): the integer when it is positive, otherwise null (0)
ToPositiveInt(value) == IF value > 0 THEN value ELSE 0

MatchedStoryboardId(row) ==
  IF row.matchedPanel.present THEN row.matchedPanel.storyboardId ELSE Null
MatchedPanelIndex(row) ==
  IF row.matchedPanel.present THEN ToPositiveInt(row.matchedPanel.panelIndex) ELSE 0
MatchedPanelId(row) ==
  IF row.matchedPanel.present
  THEN ResolvePanelId(MatchedStoryboardId(row), MatchedPanelIndex(row))
  ELSE Null

\* a loop body that inserts a row whose panel reference does not resolve
\* (matchedPanelId null) instead of throwing
VoiceRowErrorDropsReference(row) ==
  IF row.emotionStrength = NotANumber THEN "missing valid emotionStrength"
  ELSE IF row.lineIndex = NotANumber THEN "missing valid lineIndex"
  ELSE IF row.lineIndex \div 10 <= 0 THEN "invalid lineIndex"
  ELSE IF row.speaker = "" THEN "missing valid speaker"
  ELSE IF row.content = "" THEN "missing valid content"
  ELSE ""

\* the error the loop body throws for a row, "" when the row is inserted
VoiceRowError(row) ==
  IF row.matchedPanel.present /\ (MatchedStoryboardId(row) = Null \/ MatchedPanelIndex(row) = 0)
    THEN "invalid matchedPanel reference"
  ELSE IF row.matchedPanel.present /\ MatchedPanelId(row) = Null
    THEN "references non-existent panel"
  ELSE IF row.emotionStrength = NotANumber THEN "missing valid emotionStrength"
  ELSE IF row.lineIndex = NotANumber THEN "missing valid lineIndex"
  ELSE IF row.lineIndex \div 10 <= 0 THEN "invalid lineIndex"
  ELSE IF row.speaker = "" THEN "missing valid speaker"
  ELSE IF row.content = "" THEN "missing valid content"
  ELSE ""

\* data of tx.novelPromotionVoiceLine.create for row i
VoiceLineRecord(row, i) ==
  [id |-> <<run, i>>,
   episodeId |-> Episode,
   lineIndex |-> row.lineIndex \div 10,
   speaker |-> row.speaker,
   content |-> row.content,
   emotionStrength |-> Min(10, Max(1, row.emotionStrength)),
   matchedPanelId |-> MatchedPanelId(row),
   matchedStoryboardId |-> IF MatchedPanelId(row) # Null THEN MatchedStoryboardId(row) ELSE Null,
   matchedPanelIndex |-> MatchedPanelIndex(row),
   run |-> run]

\* the callback of $transaction throws: everything done inside is rolled back
TxAbort(err) ==
  /\ txOpen' = FALSE
  /\ txVoiceLines' = {}
  /\ txI' = 0
  /\ dbVoiceLines' = dbVoiceLines
  /\ Reject(err)

\* a deleteMany issued on the global client instead of the transaction client
TxDeleteManyOutsideTx ==
  /\ pc = "txBegin"
  /\ txOpen' = TRUE
  /\ dbVoiceLines' = dbVoiceLines \ EpisodeVoiceLines(dbVoiceLines)
  /\ txVoiceLines' = dbVoiceLines \ EpisodeVoiceLines(dbVoiceLines)
  /\ txI' = 1
  /\ pc' = "txRow"
  /\ UNCHANGED <<svcVars, inputVars, jobVars, outcome, envVars, obsVars, histVars, rsVars, orchVars, upI,
                 voiceVars, dbCharacters, dbLocations, dbClips, dbStoryboards, dbPanels>>

\* a transaction that inserts the new rows without deleting the former ones
TxDeleteManySkipped ==
  /\ pc = "txBegin"
  /\ txOpen' = TRUE
  /\ txVoiceLines' = dbVoiceLines
  /\ txI' = 1
  /\ pc' = "txRow"
  /\ UNCHANGED <<svcVars, inputVars, jobVars, outcome, envVars, obsVars, histVars, rsVars, orchVars, upI,
                 voiceVars, dbVars>>

\* prisma.$transaction(async (tx) => { await tx...deleteMany({ where: { episodeId } })
TxDeleteMany ==
  /\ pc = "txBegin"
  /\ txOpen' = TRUE
  /\ txVoiceLines' = dbVoiceLines \ EpisodeVoiceLines(dbVoiceLines)
  /\ txI' = 1
  /\ pc' = "txRow"
  /\ UNCHANGED <<svcVars, inputVars, jobVars, outcome, envVars, obsVars, histVars, rsVars, orchVars, upI,
                 voiceVars, dbVars>>

\* one iteration of the loop over voiceLineRows inside the transaction
TxRow ==
  /\ pc = "txRow"
  /\ txI <= voiceLineRows.count
  /\ \E row \in VoiceRowPool :
       /\ voiceLineRows' = [voiceLineRows EXCEPT !.rows = Append(@, row)]
       /\ IF VoiceRowError(row) # ""
          THEN TxAbort(VoiceRowError(row))
          ELSE IF ~episodeExists
          THEN TxAbort("DB_ERROR")
          ELSE /\ txVoiceLines' = txVoiceLines \cup {VoiceLineRecord(row, txI)}
               /\ txI' = txI + 1
               /\ UNCHANGED <<pc, outcome, txOpen, dbVoiceLines>>
  /\ UNCHANGED <<svcVars, inputVars, jobVars, envVars, obsVars, histVars, rsVars, orchVars, upI,
                 persistedStoryboards, voiceAttempt, voiceLastError,
                 dbCharacters, dbLocations, dbClips, dbStoryboards, dbPanels>>

\* return created  -- the transaction commits
TxCommit ==
  /\ pc = "txRow"
  /\ txI > voiceLineRows.count
  /\ dbVoiceLines' = txVoiceLines
  /\ txOpen' = FALSE
  /\ txVoiceLines' = {}
  /\ txI' = 0
  /\ pc' = "reportDone"
  /\ UNCHANGED <<svcVars, inputVars, jobVars, outcome, envVars, obsVars, histVars, rsVars, orchVars, upI,
                 voiceVars, dbCharacters, dbLocations, dbClips, dbStoryboards, dbPanels>>

\* { timeout: 15000 }: the transaction is aborted when it runs too long
TxTimeout ==
  /\ pc = "txRow"
  /\ txOpen
  /\ TxAbort("TX_TIMEOUT")
  /\ UNCHANGED <<svcVars, inputVars, jobVars, envVars, obsVars, histVars, rsVars, orchVars, upI, voiceVars,
                 dbCharacters, dbLocations, dbClips, dbStoryboards, dbPanels>>

\* -------------------------------------------------------------- environment
\* the task is cancelled or superseded while the job runs
Cancel ==
  /\ Running
  /\ ~cancelled
  /\ cancelled' = TRUE
  /\ UNCHANGED <<svcVars, inputVars, jobVars, pc, outcome, episodeExists, reporterFlaky, reportLost,
                 obsVars, histVars, localVars, dbVars>>

\* the episode is deleted while the job runs; its rows go with it.  The open
\* voice-line transaction holds the episode through its inserted rows.
DeleteEpisode ==
  /\ Running
  /\ episodeExists
  /\ ~txOpen
  /\ episodeExists' = FALSE
  /\ dbClips' = dbClips \ EpisodeClips
  /\ dbStoryboards' = dbStoryboards \ EpisodeStoryboards
  /\ dbPanels' = dbPanels \ EpisodePanels
  /\ dbVoiceLines' = dbVoiceLines \ EpisodeVoiceLines(dbVoiceLines)
  /\ UNCHANGED <<svcVars, inputVars, jobVars, pc, outcome, cancelled, reporterFlaky, reportLost,
                 obsVars, histVars, localVars, dbCharacters, dbLocations>>

\* the worker takes the next job of the episode from the queue
NextJob ==
  /\ ~Running
  /\ episodeExists
  /\ run < MaxRuns
  /\ run' = run + 1
  /\ JobReset
  /\ UNCHANGED <<svcVars, handler, episodeExists, reporterFlaky, dbVars>>

\* a step of the running job or of its environment
JobStep ==
  \/ ValidateEpisodeId
  \/ LoadProject
  \/ LoadNovelData
  \/ LoadEpisode
  \/ ResolveModel
  \/ CheckContent
  \/ ReportPrepare
  \/ OrchStart
  \/ OrchCallStep
  \/ OrchReturnS2S
  \/ OrchReturnS2B
  \/ OrchFinish
  \/ OrchCatchS2B
  \/ Flush
  \/ RunStepAssert
  \/ RunStepReport
  \/ RunStepLogPrompt
  \/ RunStepChat
  \/ RunStepLogOutput
  \/ CheckPartial
  \/ ReportPersist
  \/ AssertPersist
  \/ RecheckEpisode
  \/ PersistCharacters
  \/ PersistLocations
  \/ PersistClips
  \/ UpdateScreenplay
  \/ UpdateScreenplayDone
  \/ ReportDone
  \/ PersistStoryboards
  \/ CheckNovelText
  \/ VoiceCallStep
  \/ VoiceReturn
  \/ VoiceLoopExit
  \/ VoiceCheck
  \/ AssertVoicePersist
  \/ TxDeleteMany
  \/ TxRow
  \/ TxCommit
  \/ TxTimeout
  \/ Cancel
  \/ DeleteEpisode

Next ==
  \/ JobStep
  \/ NextJob

Spec == Init /\ [][Next]_vars

\* --------------------------------------------- one job on a flaky channel
\* a single job whose progress channel may drop any of its reports
ReportInit == InitJob /\ reporterFlaky = TRUE /\ ServicesIdle

ReportSpec == ReportInit /\ [][JobStep]_vars

\* ----------------------------------------- the PARTIAL_FAILED check by itself
\* handleStoryToScriptTask at the moment its orchestrator has returned and the
\* stream callbacks are flushed, for every list of up to MaxPreviewItems
\* screenplay results
ScreenplayResultLists ==
  UNION {[1..n -> {"ok", "fail", "fail_blank"}] : n \in 0..MaxPreviewItems}

PreviewInit ==
  /\ handler = "s2s"
  /\ run = 1
  /\ pc = "checkPartial"
  /\ outcome = "none"
  /\ cancelled = FALSE
  /\ episodeExists = TRUE
  /\ screenplayResults \in ScreenplayResultLists
  /\ nClips = Len(screenplayResults)
  /\ nPanels = 0
  /\ novelText = FALSE
  /\ orchStep = PipelineSteps + nClips
  /\ progressLog = <<ProgressPrepare>> \o [i \in 1..orchStep |-> StepProgress(i, orchStep)]
  /\ llmCalls = orchStep
  /\ auditLogs = 2 * orchStep - FailedCount
  /\ parseErrorLogs = 0
  /\ flushes = 1
  /\ rsCaller = "none"
  /\ rsMeta = [stepId |-> "step_" \o ToString(orchStep), stepIndex |-> orchStep,
               stepTotal |-> orchStep]
  /\ rsAsserted = TRUE
  /\ rsResult = IF nClips > 0 /\ screenplayResults[nClips] # "ok" THEN "LLM_ERROR" ELSE "ok"
  /\ assertSinceLLM = FALSE
  /\ signalled = FALSE
  /\ analyzedCharacters \in AnalyzedNameSets
  /\ analyzedLocations = {}
  /\ pendingErr = "none"
  /\ upI = 0
  /\ dbCharacters = InitCharacters
  /\ dbLocations = InitLocations
  /\ dbClips = InitClips(1)
  /\ dbStoryboards = InitStoryboards
  /\ dbPanels = InitPanels
  /\ dbVoiceLines = InitVoiceLines
  /\ persistedStoryboards = {}
  /\ voiceAttempt = 0
  /\ voiceLastError = "none"
  /\ voiceLineRows = NoRows
  /\ voiceLog = <<>>
  /\ txOpen = FALSE
  /\ txVoiceLines = {}
  /\ txI = 0
  /\ jobData = Unread
  /\ model = "m1"
  /\ llmModel = "m1"
  /\ dbReads = 4
  /\ errorPreview = <<>>
  /\ reporterFlaky = FALSE
  /\ reportLost = FALSE
  /\ ServicesIdle

PreviewNext ==
  \/ CheckPartial
  \/ ReportPersist

PreviewSpec == PreviewInit /\ [][PreviewNext]_vars

\* ------------------------------------------- runStep called with any meta
\* runStep is a closure handed to the orchestrator, which may call it with
\* any stepIndex >= 0 and any stepTotal.
MaxStepIndex == 12
StepMetas ==
  {[stepId |-> "step", stepIndex |-> i, stepTotal |-> t] :
     i \in 0..MaxStepIndex, t \in (0 - 1)..MaxStepIndex}

\* runStep has passed its liveness check and is about to report
ProgressInit ==
  /\ handler \in {"s2s", "s2b"}
  /\ run = 1
  /\ pc = "rs_report"
  /\ outcome = "none"
  /\ cancelled = FALSE
  /\ episodeExists = TRUE
  /\ nClips = 0
  /\ nPanels = 0
  /\ novelText = FALSE
  /\ progressLog = <<ProgressPrepare>>
  /\ llmCalls = 0
  /\ auditLogs = 0
  /\ parseErrorLogs = 0
  /\ flushes = 0
  /\ rsCaller = "orch"
  /\ rsMeta \in StepMetas
  /\ rsAsserted = TRUE
  /\ rsResult = "none"
  /\ assertSinceLLM = TRUE
  /\ signalled = FALSE
  /\ orchStep = 0
  /\ analyzedCharacters = {}
  /\ analyzedLocations = {}
  /\ screenplayResults = <<>>
  /\ pendingErr = "none"
  /\ upI = 0
  /\ dbCharacters = InitCharacters
  /\ dbLocations = InitLocations
  /\ dbClips = InitClips(1)
  /\ dbStoryboards = InitStoryboards
  /\ dbPanels = InitPanels
  /\ dbVoiceLines = InitVoiceLines
  /\ persistedStoryboards = {}
  /\ voiceAttempt = 0
  /\ voiceLastError = "none"
  /\ voiceLineRows = NoRows
  /\ voiceLog = <<>>
  /\ txOpen = FALSE
  /\ txVoiceLines = {}
  /\ txI = 0
  /\ jobData = Unread
  /\ model = ""
  /\ llmModel = "none"
  /\ dbReads = 0
  /\ errorPreview = <<>>
  /\ reportLost = FALSE
  /\ reporterFlaky = FALSE
  /\ ServicesIdle

ProgressNext == RunStepReport

ProgressSpec == ProgressInit /\ [][ProgressNext]_vars

\* ============================================== GET /m/[publicId] (route.ts)
\* Strings that may be null are "" when null (the route tests them for
\* truthiness); a path is the sequence of its segments; a file is the
\* sequence of its bytes.
MaxFileLen == 3
Absent == 0 - 1
DefaultContentType == "application/octet-stream"
UploadDirAbs == <<"tmp", "uploads">>

Files == {[i \in 1..n |-> 10 + i] : n \in 0..MaxFileLen}

\* what fs.readFile does for the path: the bytes, or an error with a code
DiskStates ==
  {[code |-> "", bytes |-> f] : f \in Files}
    \cup {[code |-> c, bytes |-> <<>>] : c \in {"ENOENT", "EIO"}}

\* the row getMediaObjectByPublicId returns; found = FALSE is null
MediaRows ==
  {[found |-> FALSE, id |-> "", storageKey |-> <<>>, sha256 |-> "", mimeType |-> "",
    updatedAt |-> ""]}
    \cup {[found |-> TRUE, id |-> "media-1", storageKey |-> k, sha256 |-> h,
           mimeType |-> m, updatedAt |-> "t1"] :
            k \in {<<>>, <<"images", "foo.png">>, <<"..", "secret.png">>},
            h \in {"", "abc"},
            m \in {"", "image/png", "video/mp4"}}

\* the Range header: null, or a unit and the two parts around the dash
\* (Absent for an empty part)
NoRange == [unit |-> "", start |-> Absent, end |-> Absent]
RangeHeaders ==
  {NoRange, [unit |-> "items", start |-> 0, end |-> 0]}
    \cup {[unit |-> "bytes", start |-> a, end |-> b] :
            a \in Absent..MaxFileLen, b \in Absent..MaxFileLen}

\* buildEtag(media)
BuildEtag(media) ==
  IF media.sha256 # "" THEN "\"" \o media.sha256 \o "\""
  ELSE "W/\"media-" \o media.id \o "-"
         \o (IF media.updatedAt # "" THEN media.updatedAt ELSE "0") \o "\""

IfNoneMatchHeaders == {"", "*", "\"abc\"", "W/\"media-media-1-t1\""}

MediaRequests ==
  {[media |-> m, ifNoneMatch |-> inm, range |-> r, isLocalStorage |-> l, disk |-> d] :
     m \in MediaRows, inm \in IfNoneMatchHeaders, r \in RangeHeaders,
     l \in BOOLEAN, d \in DiskStates}

\* parseRange(rangeHeader, totalLength): <<start, end>>, or <<>> for null
ParseRange(rangeHeader, totalLength) ==
  IF rangeHeader.unit # "bytes" THEN <<>>
  ELSE LET start == IF rangeHeader.start # Absent THEN rangeHeader.start ELSE 0
           end == IF rangeHeader.end # Absent THEN rangeHeader.end ELSE totalLength - 1
       IN IF start < 0 \/ end < start \/ end >= totalLength THEN <<>> ELSE <<start, end>>

\* path.normalize(path.resolve(p)) of an absolute path
RECURSIVE NormalizePath(_)
NormalizePath(p) ==
  IF p = <<>> THEN <<>>
  ELSE LET init == NormalizePath(SubSeq(p, 1, Len(p) - 1))
           last == p[Len(p)]
       IN IF last = ".." THEN (IF init = <<>> THEN <<>> ELSE SubSeq(init, 1, Len(init) - 1))
          ELSE IF last = "." THEN init
          ELSE Append(init, last)

\* getLocalFilePath(key) = path.join(cwd, UPLOAD_DIR, key)
GetLocalFilePath(key) == UploadDirAbs \o key

\* normalizedPath.startsWith(uploadDirAbs + path.sep)
InsideUploadDir(p) ==
  Len(p) > Len(UploadDirAbs) /\ SubSeq(p, 1, Len(UploadDirAbs)) = UploadDirAbs

\* buffer.subarray(start, end + 1)
Subarray(buffer, start, end) == SubSeq(buffer, start + 1, end + 1)

MediaContentType == IF mediaReq.media.mimeType # "" THEN mediaReq.media.mimeType
                    ELSE DefaultContentType

Respond(status, body, contentType, etag, contentRange) ==
  mediaRes' = [mediaRes EXCEPT !.pc = "responded", !.status = status, !.body = body,
                               !.contentType = contentType, !.etag = etag,
                               !.contentRange = contentRange]

workerAll == <<inputVars, jobVars, pc, outcome, envVars, obsVars, histVars, localVars, dbVars>>
jobAll == <<workerAll, libVars>>

\* const media = await getMediaObjectByPublicId(publicId); 404 / 500
MediaLookup ==
  /\ mediaRes.pc = "lookup"
  /\ IF ~mediaReq.media.found THEN Respond(404, <<>>, "application/json", "", <<>>)
     ELSE IF mediaReq.media.storageKey = <<>>
     THEN Respond(500, <<>>, "application/json", "", <<>>)
     ELSE mediaRes' = [mediaRes EXCEPT !.pc = "conditional"]
  /\ UNCHANGED <<jobAll, mediaReq, genResponse, genResult>>

\* if (ifNoneMatch && ifNoneMatch === etag) return 304
MediaConditional ==
  /\ mediaRes.pc = "conditional"
  /\ IF mediaReq.ifNoneMatch # "" /\ mediaReq.ifNoneMatch = BuildEtag(mediaReq.media)
     THEN Respond(304, <<>>, "", BuildEtag(mediaReq.media), <<>>)
     ELSE mediaRes' = [mediaRes EXCEPT !.pc = "serve"]
  /\ UNCHANGED <<jobAll, mediaReq, genResponse, genResult>>

\* if (isLocalStorage): the path is resolved and must lie under the upload dir
MediaLocalPathUnchecked ==
  /\ mediaRes.pc = "serve"
  /\ mediaReq.isLocalStorage
  /\ mediaRes' = [mediaRes EXCEPT !.pc = "read"]
  /\ UNCHANGED <<jobAll, mediaReq, genResponse, genResult>>
MediaLocalPath ==
  /\ mediaRes.pc = "serve"
  /\ mediaReq.isLocalStorage
  /\ IF ~InsideUploadDir(NormalizePath(GetLocalFilePath(mediaReq.media.storageKey)))
     THEN Respond(403, <<>>, "application/json", "", <<>>)
     ELSE mediaRes' = [mediaRes EXCEPT !.pc = "read"]
  /\ UNCHANGED <<jobAll, mediaReq, genResponse, genResult>>

\* const buffer = await fs.readFile(normalizedPath) and the response built
\* from it; ENOENT is answered 404, any other error is re-thrown
MediaReadFile ==
  /\ mediaRes.pc = "read"
  /\ LET disk == mediaReq.disk
         range == ParseRange(mediaReq.range, Len(disk.bytes))
         etag == BuildEtag(mediaReq.media)
         counted == [mediaRes EXCEPT !.reads = @ + 1]
     IN IF disk.code = "ENOENT"
        THEN mediaRes' = [counted EXCEPT !.pc = "responded", !.status = 404,
                                         !.contentType = "application/json"]
        ELSE IF disk.code # ""
        THEN mediaRes' = [counted EXCEPT !.pc = "threw"]
        ELSE IF range # <<>>
        THEN mediaRes' = [counted EXCEPT !.pc = "responded", !.status = 206,
                            !.body = Subarray(disk.bytes, range[1], range[2]),
                            !.contentType = MediaContentType, !.etag = etag,
                            !.contentRange = <<range[1], range[2], Len(disk.bytes)>>]
        ELSE mediaRes' = [counted EXCEPT !.pc = "responded", !.status = 200,
                            !.body = disk.bytes,
                            !.contentType = MediaContentType, !.etag = etag]
  /\ UNCHANGED <<jobAll, mediaReq, genResponse, genResult>>

\* a route that fetches the signed URL in local storage mode as well
MediaFetchAlways ==
  /\ mediaRes.pc = "serve"
  /\ \E upstream \in {200, 206, 404, 500} :
       LET fetched == [mediaRes EXCEPT !.fetches = @ + 1]
       IN IF upstream \notin {200, 206}
          THEN mediaRes' = [fetched EXCEPT !.pc = "responded",
                              !.status = IF upstream = 404 THEN 404 ELSE 502,
                              !.contentType = "application/json"]
          ELSE mediaRes' = [fetched EXCEPT !.pc = "responded", !.status = upstream,
                              !.body = mediaReq.disk.bytes,
                              !.contentType = MediaContentType,
                              !.etag = BuildEtag(mediaReq.media)]
  /\ UNCHANGED <<jobAll, mediaReq, genResponse, genResult>>

\* cloud storage: const upstream = await fetch(fetchUrl, ...) and the response
\* relayed from it
MediaFetch ==
  /\ mediaRes.pc = "serve"
  /\ ~mediaReq.isLocalStorage
  /\ \E upstream \in {200, 206, 404, 500} :
       LET fetched == [mediaRes EXCEPT !.fetches = @ + 1]
       IN IF upstream \notin {200, 206}
          THEN mediaRes' = [fetched EXCEPT !.pc = "responded",
                              !.status = IF upstream = 404 THEN 404 ELSE 502,
                              !.contentType = "application/json"]
          ELSE mediaRes' = [fetched EXCEPT !.pc = "responded", !.status = upstream,
                              !.body = mediaReq.disk.bytes,
                              !.contentType = MediaContentType,
                              !.etag = BuildEtag(mediaReq.media)]
  /\ UNCHANGED <<jobAll, mediaReq, genResponse, genResult>>

\* a GET request has arrived; no worker job runs
MediaInit ==
  /\ InitJob
  /\ handler = "s2s"
  /\ reporterFlaky = FALSE
  /\ mediaReq \in MediaRequests
  /\ mediaRes = [pc |-> "lookup", status |-> 0, body |-> <<>>, contentType |-> "",
                 etag |-> "", contentRange |-> <<>>, reads |-> 0, fetches |-> 0]
  /\ genResponse = NoResponse
  /\ genResult = NoResponse
  /\ upload = NoResponse
  /\ imageCache = NoResponse
  /\ workerProc = NoResponse
  /\ projectCache = NoResponse

MediaNext ==
  \/ MediaLookup
  \/ MediaConditional
  \/ MediaLocalPath
  \/ MediaReadFile
  \/ MediaFetch

MediaSpec == MediaInit /\ [][MediaNext]_vars

\* ===================== OpenAICompatibleImageGenerator.doGenerate (part_002)
\* A string is the sequence of its tokens, " " being white space; the empty
\* sequence is the empty string, and stands for null and undefined as well.
MaxFields == 2

ImageUrlPaths ==
  <<"data.0.url", "url", "image_url", "output.url", "output_url", "result.url",
    "result.image_url">>
ImageBase64Paths == <<"data.0.b64_json", "b64_json", "data.0.base64", "base64", "image_base64">>
ImageHtmlPaths == <<"html", "output_html", "result.html", "data.0.html">>

Range(seq) == {seq[i] : i \in DOMAIN seq}
ImagePaths == Range(ImageUrlPaths) \cup Range(ImageBase64Paths) \cup Range(ImageHtmlPaths)

PayloadTexts ==
  {<<" ">>,
   <<" ", "https://a", " ">>,
   <<"ZmFrZQ==">>,
   <<"data:image/", "png;base64,ZmFrZQ==">>,
   <<"<source src=\"", "https://b?x=1&amp;y=2", "\">">>,
   <<"<p>", "none", "</p>">>}

\* what client.images.generate returns: a JSON object, here the strings at
\* the paths the generator reads, or the body as a string
ProviderResponses ==
  {[kind |-> "string", text |-> t] : t \in PayloadTexts}
    \cup {[kind |-> "object", fields |-> f] :
            f \in UNION {[S -> PayloadTexts] :
                           S \in {T \in SUBSET ImagePaths : Cardinality(T) <= MaxFields}}}

\* String.prototype.trim
RECURSIVE TrimTokens(_)
TrimTokens(t) ==
  IF t = <<>> THEN <<>>
  ELSE IF Head(t) = " " THEN TrimTokens(Tail(t))
  ELSE IF t[Len(t)] = " " THEN TrimTokens(SubSeq(t, 1, Len(t) - 1))
  ELSE t

\* getByPath(value, path)
GetByPath(value, path) ==
  IF value.kind = "object" /\ path \in DOMAIN value.fields THEN value.fields[path] ELSE <<>>

\* pickFirstStringByPaths(value, paths), <<>> for null
PickFirstStringByPaths(value, paths) ==
  LET hits == {i \in DOMAIN paths : TrimTokens(GetByPath(value, paths[i])) # <<>>}
  IN IF hits # {}
     THEN TrimTokens(GetByPath(value, paths[CHOOSE i \in hits : \A j \in hits : i <= j]))
     ELSE IF value.kind = "string" /\ TrimTokens(value.text) # <<>>
     THEN TrimTokens(value.text)
     ELSE <<>>

\* decodeHtmlAmp(value)
DecodeHtmlAmp(token) ==
  IF token = "https://b?x=1&amp;y=2" THEN <<"https://b?x=1&y=2">> ELSE TrimTokens(<<token>>)

\* the capture of the first match of /<tag[^>]+src=["']([^"']+)["']/ in html
SrcOf(html, tag) ==
  LET at == {i \in 1..(Len(html) - 1) : html[i] = "<" \o tag \o " src=\""}
  IN IF at = {} THEN "" ELSE html[(CHOOSE i \in at : \A j \in at : i <= j) + 1]

IsUrlToken(token) == token \in {"https://a", "https://b?x=1&amp;y=2"}

\* extractUrlFromHtml(html), <<>> for null
ExtractUrlFromHtml(html) ==
  LET urls == {i \in DOMAIN html : IsUrlToken(html[i])}
  IN IF SrcOf(html, "source") # "" THEN DecodeHtmlAmp(SrcOf(html, "source"))
     ELSE IF SrcOf(html, "video") # "" THEN DecodeHtmlAmp(SrcOf(html, "video"))
     ELSE IF SrcOf(html, "iframe") # "" THEN DecodeHtmlAmp(SrcOf(html, "iframe"))
     ELSE IF urls # {} THEN DecodeHtmlAmp(html[CHOOSE i \in urls : \A j \in urls : i <= j])
     ELSE <<>>

\* normalizeImageDataUrl(base64)
NormalizeImageDataUrl(base64) ==
  IF Head(base64) = "data:image/" THEN base64 ELSE <<"data:image/", "png;base64,">> \o base64

GenerateSuccess(imageUrl, imageBase64) ==
  [success |-> TRUE, imageUrl |-> imageUrl, imageBase64 |-> imageBase64, error |-> ""]
ResultUnsupported ==
  [success |-> FALSE, imageUrl |-> <<>>, imageBase64 |-> <<>>,
   error |-> "OPENAI_COMPATIBLE_IMAGE_RESULT_UNSUPPORTED"]

\* doGenerate from `const directUrl = ...` on: what it returns or throws
ResolveImageResult(response) ==
  LET directUrl == PickFirstStringByPaths(response, ImageUrlPaths)
      base64 == PickFirstStringByPaths(response, ImageBase64Paths)
      html == PickFirstStringByPaths(response, ImageHtmlPaths)
  IN IF directUrl # <<>> THEN GenerateSuccess(directUrl, <<>>)
     ELSE IF base64 # <<>> THEN GenerateSuccess(NormalizeImageDataUrl(base64), base64)
     ELSE IF html # <<>> /\ ExtractUrlFromHtml(html) # <<>>
     THEN GenerateSuccess(ExtractUrlFromHtml(html), <<>>)
     ELSE ResultUnsupported

\* const response = await client.images.generate(requestBody)
ImagesGenerate ==
  /\ genResponse = NoResponse
  /\ genResponse' \in ProviderResponses
  /\ UNCHANGED <<jobAll, mediaReq, mediaRes, genResult>>

\* the rest of doGenerate
ResolveResult ==
  /\ genResponse # NoResponse
  /\ genResult = NoResponse
  /\ genResult' = ResolveImageResult(genResponse)
  /\ UNCHANGED <<jobAll, mediaReq, mediaRes, genResponse>>

\* doGenerate has been called; no worker job and no media request runs
GeneratorInit ==
  /\ InitJob
  /\ handler = "s2s"
  /\ reporterFlaky = FALSE
  /\ ServicesIdle

GeneratorNext == ImagesGenerate \/ ResolveResult

GeneratorSpec == GeneratorInit /\ [][GeneratorNext]_vars

\* ================================================= uploadToCOS (lib/cos.ts)
\* the largest maxRetries a caller passes
MaxRetriesArg == 3

COS_MAX_RETRIES == 3
\* COS_RETRY_DELAY_BASE_MS, in seconds
COS_RETRY_DELAY_BASE == 2

UploadKeys == {"images/a.png", "voice/b.mp3"}
\* what putObject hands to its callback as err; "" is a null err
PutErrors == {"ETIMEDOUT", "ECONNRESET", "AccessDenied"}
UploadFailed == "COS upload failed"

\* the catch block's wait: delayMs when attempt < maxRetries, no wait otherwise
UploadRetryDelayAlways(attempt, maxRetries) ==
  <<COS_RETRY_DELAY_BASE * 2^(attempt - 1)>>
UploadRetryDelay(attempt, maxRetries) ==
  IF attempt < maxRetries
    THEN <<COS_RETRY_DELAY_BASE * 2^(attempt - 1)>>
    ELSE <<>>

\* one pass of the for loop in COS mode: putObject, then return or catch
UploadAttempt ==
  /\ upload.pc = "attempt"
  /\ upload.attempt <= upload.maxRetries
  /\ \E err \in PutErrors \cup {""} :
       upload' =
         IF err = ""
           THEN [upload EXCEPT !.pc = "returned",
                               !.puts = @ + 1,
                               !.result = upload.key]
           ELSE [upload EXCEPT !.puts = @ + 1,
                               !.errors = Append(@, err),
                               !.lastError = err,
                               !.waits = @ \o UploadRetryDelay(upload.attempt,
                                                               upload.maxRetries),
                               !.attempt = @ + 1]
  /\ UNCHANGED <<workerAll, routeVars, imageCache, workerProc, projectCache>>

\* the loop is over: throw lastError || new Error(...)
UploadThrow ==
  /\ upload.pc = "attempt"
  /\ upload.attempt > upload.maxRetries
  /\ upload' = [upload EXCEPT !.pc = "threw",
                              !.thrown = IF upload.lastError # ""
                                           THEN upload.lastError
                                           ELSE UploadFailed]
  /\ UNCHANGED <<workerAll, routeVars, imageCache, workerProc, projectCache>>

\* uploadToCOS(buffer, key, maxRetries) has been called in COS mode
UploadInit ==
  /\ InitJob
  /\ handler = "s2s"
  /\ reporterFlaky = FALSE
  /\ RoutesIdle
  /\ imageCache = NoResponse
  /\ workerProc = NoResponse
  /\ projectCache = NoResponse
  /\ \E k \in UploadKeys, m \in 0..MaxRetriesArg :
       upload = [pc |-> "attempt", key |-> k, maxRetries |-> m, attempt |-> 1,
                 puts |-> 0, waits |-> <<>>, errors |-> <<>>, lastError |-> "",
                 result |-> "", thrown |-> ""]

UploadNext == UploadAttempt \/ UploadThrow

UploadSpec == UploadInit /\ [][UploadNext]_vars

\* ========================================= getImageBase64Cached (part_001)
\* calls of getImageBase64Cached for the one URL
MaxCalls == 3

\* imageCache.get(cacheKey) with the expiresAt test: the download of the
\* unexpired entry, 0 when there is none
CachedEntry(c) == IF c.entry # 0 /\ ~c.expired THEN c.entry ELSE 0

\* the cache-hit branch is taken
CacheHitSettled(c, forceRefresh) ==
  /\ ~forceRefresh
  /\ CachedEntry(c) # 0
  /\ c.downloads[CachedEntry(c)] = "ok"
CacheHit(c, forceRefresh) == ~forceRefresh /\ CachedEntry(c) # 0

\* one call, up to its return: nothing is awaited between the cache check,
\* the start of the download and imageCache.set
GetImageBase64Cached ==
  /\ imageCache.pc = "run"
  /\ Len(imageCache.callers) < MaxCalls
  /\ \E forceRefresh \in BOOLEAN :
       LET c == imageCache
           d == Len(c.downloads) + 1
           caller(got) == [forceRefresh |-> forceRefresh,
                           cached |-> CachedEntry(c), got |-> got]
       IN imageCache' =
            IF CacheHit(c, forceRefresh)
              THEN [c EXCEPT !.callers = Append(@, caller(c.entry))]
              ELSE [c EXCEPT !.downloads = Append(@, "pending"),
                             !.entry = d,
                             !.expired = FALSE,
                             !.callers = Append(@, caller(d))]
  /\ UNCHANGED <<workerAll, routeVars, upload, workerProc, projectCache>>

\* downloadPromise resolves; the then callback only sets entry.size
DownloadResolve ==
  /\ imageCache.pc = "run"
  /\ \E d \in DOMAIN imageCache.downloads :
       /\ imageCache.downloads[d] = "pending"
       /\ imageCache' = [imageCache EXCEPT !.downloads[d] = "ok"]
  /\ UNCHANGED <<workerAll, routeVars, upload, workerProc, projectCache>>

\* downloadPromise rejects; the catch callback runs imageCache.delete(cacheKey)
DownloadReject ==
  /\ imageCache.pc = "run"
  /\ \E d \in DOMAIN imageCache.downloads :
       /\ imageCache.downloads[d] = "pending"
       /\ imageCache' = [imageCache EXCEPT
            !.downloads[d] = "failed",
            !.evictions = Append(@, [by |-> d, entry |-> imageCache.entry]),
            !.entry = 0,
            !.expired = FALSE]
  /\ UNCHANGED <<workerAll, routeVars, upload, workerProc, projectCache>>

\* Date.now() passes the entry's expiresAt
CacheExpire ==
  /\ imageCache.pc = "run"
  /\ imageCache.entry # 0
  /\ ~imageCache.expired
  /\ imageCache' = [imageCache EXCEPT !.expired = TRUE]
  /\ UNCHANGED <<workerAll, routeVars, upload, workerProc, projectCache>>

\* the module has been loaded: the cache is empty
ImageCacheInit ==
  /\ InitJob
  /\ handler = "s2s"
  /\ reporterFlaky = FALSE
  /\ RoutesIdle
  /\ upload = NoResponse
  /\ workerProc = NoResponse
  /\ projectCache = NoResponse
  /\ imageCache = [pc |-> "run", entry |-> 0, expired |-> FALSE,
                   downloads |-> <<>>, callers |-> <<>>, evictions |-> <<>>]

ImageCacheNext ==
  GetImageBase64Cached \/ DownloadResolve \/ DownloadReject \/ CacheExpire

ImageCacheSpec == ImageCacheInit /\ [][ImageCacheNext]_vars

\* ============================================ the worker process (part_004)
\* shutdown signals delivered to one process
MaxSignals == 2

\* workers = [image, video, voice, text]
NumWorkers == 4
Workers == 1..NumWorkers

ShutdownSignals == {"SIGINT", "SIGTERM"}

\* process.on(signal, () => void shutdown(signal)): shutdown runs up to its
\* await, which calls close() on every worker; a worker that is already
\* closing keeps its one close in progress
Shutdown ==
  /\ workerProc.pc = "running"
  /\ Len(workerProc.shutdowns) < MaxSignals
  /\ \E signal \in ShutdownSignals :
       workerProc' = [workerProc EXCEPT
         !.shutdowns = Append(@, [signal |-> signal, pc |-> "await"]),
         !.close = [w \in Workers |->
                      IF workerProc.close[w] = "open" THEN "closing"
                      ELSE workerProc.close[w]]]
  /\ UNCHANGED <<workerAll, routeVars, upload, imageCache, projectCache>>

\* the promise of worker.close() resolves
CloseResolve(w) ==
  /\ workerProc.pc = "running"
  /\ workerProc.close[w] = "closing"
  /\ workerProc' = [workerProc EXCEPT !.close[w] = "closed"]
  /\ UNCHANGED <<workerAll, routeVars, upload, imageCache, projectCache>>

\* the promise of worker.close() rejects
CloseReject(w) ==
  /\ workerProc.pc = "running"
  /\ workerProc.close[w] = "closing"
  /\ workerProc' = [workerProc EXCEPT !.close[w] = "failed"]
  /\ UNCHANGED <<workerAll, routeVars, upload, imageCache, projectCache>>

\* Promise.all resolved: process.exit(0)
ShutdownExit ==
  /\ workerProc.pc = "running"
  /\ \E i \in DOMAIN workerProc.shutdowns : workerProc.shutdowns[i].pc = "await"
  /\ \A w \in Workers : workerProc.close[w] = "closed"
  /\ workerProc' = [workerProc EXCEPT !.pc = "exited", !.exitCode = 0]
  /\ UNCHANGED <<workerAll, routeVars, upload, imageCache, projectCache>>

\* Promise.all rejected with the first rejection: the await throws, shutdown
\* rejects and nothing handles it (void shutdown(...)); the runtime either
\* ends the process on the unhandled rejection or only warns
ShutdownReject ==
  /\ workerProc.pc = "running"
  /\ \E w \in Workers : workerProc.close[w] = "failed"
  /\ \E i \in DOMAIN workerProc.shutdowns, crash \in BOOLEAN :
       /\ workerProc.shutdowns[i].pc = "await"
       /\ workerProc' = [workerProc EXCEPT
            !.shutdowns[i].pc = "rejected",
            !.pc = IF crash THEN "exited" ELSE @,
            !.exitCode = IF crash THEN 1 ELSE @]
  /\ UNCHANGED <<workerAll, routeVars, upload, imageCache, projectCache>>

\* the four workers have been created and the handlers registered
WorkerProcInit ==
  /\ InitJob
  /\ handler = "s2s"
  /\ reporterFlaky = FALSE
  /\ RoutesIdle
  /\ upload = NoResponse
  /\ imageCache = NoResponse
  /\ projectCache = NoResponse
  /\ workerProc = [pc |-> "running", shutdowns |-> <<>>, exitCode |-> 0 - 1,
                   close |-> [w \in Workers |-> "open"]]

WorkerProcNext ==
  \/ Shutdown
  \/ \E w \in Workers : CloseResolve(w)
  \/ \E w \in Workers : CloseReject(w)
  \/ ShutdownExit
  \/ ShutdownReject

\* every close() that was called settles, and a settled Promise.all resumes
\* the shutdown that awaits it
WorkerProcFairness ==
  /\ \A w \in Workers : WF_vars(CloseResolve(w) \/ CloseReject(w))
  /\ WF_vars(ShutdownExit)
  /\ WF_vars(ShutdownReject)

WorkerProcSpec == WorkerProcInit /\ [][WorkerProcNext]_vars /\ WorkerProcFairness

\* ================= useUpdateProjectConfig (useProjectConfigMutations.ts)
\* mutate() calls on the one project
MaxMutations == 2

ConfigKeys == {"videoRatio", "artStyle"}
ConfigValues == {"a", "b"}

\* what getQueryData(projectQueryKey) can hold before the first mutation: no
\* project, a project without novelPromotionData, a project with it
CachedProjects ==
  {[loaded |-> FALSE, hasData |-> FALSE, data |-> [k \in ConfigKeys |-> ""]],
   [loaded |-> TRUE, hasData |-> FALSE, data |-> [k \in ConfigKeys |-> ""]],
   [loaded |-> TRUE, hasData |-> TRUE, data |-> [k \in ConfigKeys |-> "0"]]}

\* the updater passed to setQueryData in onMutate
OptimisticProject(prev, key, value) ==
  IF ~prev.loaded \/ ~prev.hasData THEN prev
  ELSE [prev EXCEPT !.data[key] = value]

\* the value onError writes: context.previousProject when there is one
RolledBack(cache, m) == IF m.previous.loaded THEN m.previous ELSE cache

\* mutate({key, value}): onMutate snapshots the cache and writes the
\* optimistic project; the PATCH is then in flight
MutateConfig ==
  /\ projectCache.pc = "mounted"
  /\ Len(projectCache.mutations) < MaxMutations
  /\ \E key \in ConfigKeys, value \in ConfigValues :
       projectCache' = [projectCache EXCEPT
         !.mutations = Append(@, [key |-> key, value |-> value, pc |-> "pending",
                                  previous |-> projectCache.cache]),
         !.cache = OptimisticProject(@, key, value)]
  /\ UNCHANGED <<workerAll, routeVars, upload, imageCache, workerProc>>

\* the PATCH resolves: onSettled invalidates the project query
PatchSucceed ==
  /\ projectCache.pc = "mounted"
  /\ \E i \in DOMAIN projectCache.mutations :
       /\ projectCache.mutations[i].pc = "pending"
       /\ projectCache' = [projectCache EXCEPT !.mutations[i].pc = "succeeded",
                                               !.stale = TRUE]
  /\ UNCHANGED <<workerAll, routeVars, upload, imageCache, workerProc>>

\* the PATCH rejects: onError rolls back, onSettled invalidates
PatchFail ==
  /\ projectCache.pc = "mounted"
  /\ \E i \in DOMAIN projectCache.mutations :
       /\ projectCache.mutations[i].pc = "pending"
       /\ projectCache' = [projectCache EXCEPT
            !.mutations[i].pc = "failed",
            !.cache = RolledBack(@, projectCache.mutations[i]),
            !.stale = TRUE]
  /\ UNCHANGED <<workerAll, routeVars, upload, imageCache, workerProc>>

\* the hook is mounted; the project query holds what it holds
ProjectCacheInit ==
  /\ InitJob
  /\ handler = "s2s"
  /\ reporterFlaky = FALSE
  /\ RoutesIdle
  /\ upload = NoResponse
  /\ imageCache = NoResponse
  /\ workerProc = NoResponse
  /\ \E p \in CachedProjects :
       projectCache = [pc |-> "mounted", initial |-> p, cache |-> p,
                       mutations |-> <<>>, stale |-> FALSE]

ProjectCacheNext == MutateConfig \/ PatchSucceed \/ PatchFail

ProjectCacheSpec == ProjectCacheInit /\ [][ProjectCacheNext]_vars

\* ================================================================== claims
Terminal == {"done", "failed"}
RunStepExit == {"orch_ret", "voice_ret"}
SameJob == run' = run

\* the handler writes a row (the deletion of the episode with its rows is
\* the environment's write, not the handler's)
HandlerWrites ==
  \/ (dbVars' # dbVars /\ episodeExists' = episodeExists)
  \/ (txOpen' /\ txVoiceLines' # txVoiceLines)

\* C1: every chatCompletion call of runStep happens after assertTaskActive
\* returned inside the same runStep invocation; an invocation begins with the
\* liveness check, and when the check throws the invocation ends there, with
\* no LLM call, no progress report and no audit-log write.
C1_AssertBeforeCompletion ==
  [][ /\ (llmCalls' > llmCalls => pc = "rs_llm" /\ rsAsserted)
      /\ (pc' = "rs_assert" /\ pc # "rs_assert" =>
            ~rsAsserted' /\ UNCHANGED <<llmCalls, progressLog, auditLogs>>)
      /\ (pc = "rs_assert" /\ signalled' /\ ~signalled =>
            /\ pc' \in RunStepExit
            /\ rsResult' = "TaskTerminated"
            /\ UNCHANGED <<llmCalls, progressLog, auditLogs>>) ]_vars

\* a runStep whose liveness check threw after earlier steps had called the LLM
C1_Witness ==
  /\ pc \in RunStepExit
  /\ rsResult = "TaskTerminated"
  /\ llmCalls > 0
  /\ ~rsAsserted

\* C2: the handler writes a row only when assertTaskActive has returned after
\* the last LLM call of the job.
C2_AssertBeforeWrite ==
  [][ HandlerWrites => llmCalls > 0 /\ assertSinceLLM ]_vars

\* voice lines of this run committed after the voice-analysis LLM call
C2_Witness ==
  /\ handler = "s2b"
  /\ pc = "reportDone"
  /\ \E v \in dbVoiceLines : v.run = run
  /\ \E b \in dbStoryboards : b.run = run

\* C3: once assertTaskActive has raised the cancellation signal, the job makes
\* no further LLM call, writes no row, and ends rejected with that signal (never
\* done, never PARTIAL_FAILED).
C3_CancellationPropagates ==
  [][ signalled /\ SameJob =>
        /\ llmCalls' = llmCalls
        /\ ~HandlerWrites
        /\ outcome' \in {"none", "TaskTerminated"}
        /\ (pc' \in Terminal => outcome' = "TaskTerminated") ]_vars

\* a story-to-script job rejected with the signal raised in a per-clip
\* screenplay step, after an earlier clip had already failed
C3_Witness ==
  /\ handler = "s2s"
  /\ pc = "failed"
  /\ outcome = "TaskTerminated"
  /\ signalled
  /\ FailedCount > 0

\* C4: a TaskTerminatedError raised in a voice-analysis attempt leaves the
\* loop at once: the handler rejects with it, no further attempt is made and
\* the voice-line transaction is not opened.
C4_VoiceCancellationNotRetried ==
  [][ /\ (pc = "voice_ret" /\ rsResult = "TaskTerminated" /\ pc' # pc =>
            pc' = "failed" /\ outcome' = "TaskTerminated")
      /\ (handler = "s2b" /\ signalled /\ SameJob =>
            /\ voiceAttempt' = voiceAttempt
            /\ Len(voiceLog') <= Len(voiceLog) + (IF pc = "voice_ret" THEN 1 ELSE 0)
            /\ rsCaller' \in {rsCaller, "none"}
            /\ ~txOpen') ]_vars

\* the signal was raised in the second attempt, after a first one that failed
C4_Witness ==
  /\ pc = "failed"
  /\ outcome = "TaskTerminated"
  /\ Len(voiceLog) = 2
  /\ voiceLog[2] = "TaskTerminated"
  /\ voiceAttempt = 2

VoiceRetryable == {"LLM_ERROR", "VOICE_PARSE_ERROR"}

\* C5: the voice-analysis step runs at most MaxVoiceAttempts (2) attempts;
\* every attempt but the last failed with a non-cancellation error, a failed
\* first attempt of that kind is followed by the second attempt, and after
\* two failures the handler rejects with the last error without opening the
\* voice-line transaction.
C5_VoiceAttempts ==
  [][ /\ Len(voiceLog') <= MaxVoiceAttempts
      /\ \A i \in 1..(Len(voiceLog') - 1) : voiceLog'[i] \in VoiceRetryable
      /\ (rsCaller' = "voice" /\ rsCaller # "voice" => Len(voiceLog) < MaxVoiceAttempts)
      /\ (pc = "voice_ret" /\ voiceLog = <<>> /\ rsResult \in {"LLM_ERROR", "badjson"} /\ pc' # pc =>
            pc' = "voiceLoop" /\ voiceAttempt' = 2)
      /\ (pc = "voiceLoop" /\ voiceAttempt <= MaxVoiceAttempts /\ pc' # pc =>
            pc' = "rs_assert" /\ rsCaller' = "voice")
      /\ (Len(voiceLog) = MaxVoiceAttempts /\ voiceLog[MaxVoiceAttempts] # "ok" /\ SameJob =>
            /\ ~txOpen'
            /\ pc' \in {"voiceLoop", "voiceCheck", "failed"}
            /\ (pc' = "failed" => outcome' = voiceLog[MaxVoiceAttempts])) ]_vars

\* both attempts failed, the first on the LLM call and the second on parsing
C5_Witness ==
  /\ pc = "failed"
  /\ voiceLog = <<"LLM_ERROR", "VOICE_PARSE_ERROR">>
  /\ outcome = "VOICE_PARSE_ERROR"
  /\ llmCalls >= 2

\* C6: within one job the percentages passed to reportTaskProgress never
\* decrease, over every report of the job.
C6_ProgressMonotone ==
  \A i \in 1..(Len(progressLog) - 1) : progressLog[i] <= progressLog[i + 1]

OrchestratorReturned == flushes > 0 /\ pendingErr = "none"

\* C7: when handleScriptToStoryboardTask rejects after its orchestrator has
\* returned, no storyboard or panel row written by this job remains.
C7_RejectedJobLeavesNoStoryboards ==
  handler = "s2b" /\ pc = "failed" /\ OrchestratorReturned =>
    /\ {b \in dbStoryboards : b.run = run} = {}
    /\ {q \in dbPanels : q.run = run} = {}

\* C8: when handleStoryToScriptTask fails inside its persistence phase, no
\* character, location or clip row written by this job remains.
C8_FailedPersistenceLeavesNoRows ==
  handler = "s2s" /\ pc = "failed" /\ outcome = "DB_ERROR" =>
    /\ {r \in dbCharacters : r.run = run} = {}
    /\ {r \in dbLocations : r.run = run} = {}
    /\ {c \in dbClips : c.run = run} = {}

\* the (storyboardId, panelIndex) pairs of the panels this run creates
PanelKeysOfRun == {<<<<run, c>>, i>> : c \in 1..nClips, i \in 1..nPanels}

RefersOutsideRun(row) ==
  /\ row.matchedPanel.present
  /\ <<row.matchedPanel.storyboardId, row.matchedPanel.panelIndex>> \notin PanelKeysOfRun

\* C9: if a voice line of the run has a matchedPanel whose (storyboardId,
\* panelIndex) pair is not among the panels created by this run, no voice line
\* of the run is committed, whatever the position of that line.
C9_UnresolvedReferenceAborts ==
  (\E i \in DOMAIN voiceLineRows.rows : RefersOutsideRun(voiceLineRows.rows[i])) =>
    {v \in dbVoiceLines : v.run = run} = {}

\* the offending line came second, after a line that had been inserted, and
\* named a panel that existed before the run
C9_Witness ==
  /\ pc = "failed"
  /\ outcome = "references non-existent panel"
  /\ Len(voiceLineRows.rows) = 2
  /\ voiceLineRows.rows[2].matchedPanel = StaleRef
  /\ voiceLineRows.rows[1].matchedPanel = CurrentRef

\* C10: from the deleteMany inside the transaction until the transaction
\* ends, the committed voice-line table is untouched unless the transaction
\* commits: when it aborts at a row, the voice lines the episode had before
\* are all still there, although inside the transaction they were deleted.
C10_AbortKeepsOldVoiceLines ==
  [][ /\ ((txOpen \/ txOpen') /\ pc' # "reportDone" => dbVoiceLines' = dbVoiceLines)
      /\ (txOpen' => {v \in EpisodeVoiceLines(txVoiceLines') : v.run # run} = {}) ]_vars

\* the transaction aborted at its second row and the episode still has the
\* voice lines of before the job
C10_Witness ==
  /\ pc = "failed"
  /\ outcome \in {"references non-existent panel", "invalid matchedPanel reference",
                  "missing valid emotionStrength"}
  /\ Len(voiceLineRows.rows) = 2
  /\ \E v \in EpisodeVoiceLines(dbVoiceLines) : v.run < run

\* the rows the voice-line transaction of this run inserts
VoiceGeneration ==
  {VoiceLineRecord(voiceLineRows.rows[i], i) : i \in 1..voiceLineRows.count}

\* C11: voice-line persistence is a full replace.  The voice lines of the
\* episode always belong to one run (never the union of two generations);
\* when a script-to-storyboard job has committed, they are exactly the rows
\* that job inserted; rows of the running job appear only with its commit;
\* and the voice lines of another episode are never deleted.
C11_FullReplace ==
  /\ \A v, w \in EpisodeVoiceLines(dbVoiceLines) : v.run = w.run
  /\ \A v \in EpisodeVoiceLines(dbVoiceLines) :
       v.run <= run /\ (v.run = run => handler = "s2b" /\ pc \in {"reportDone", "done"})
  /\ (handler = "s2b" /\ pc \in {"reportDone", "done"} /\ episodeExists =>
        EpisodeVoiceLines(dbVoiceLines) = VoiceGeneration)
  /\ {v \in dbVoiceLines : v.episodeId = OtherEpisode}
       = {v \in InitVoiceLines : v.episodeId = OtherEpisode}

\* the second job of the episode committed two voice lines over what the
\* episode had before
C11_Witness ==
  /\ handler = "s2b"
  /\ run = 2
  /\ pc = "done"
  /\ voiceLineRows.count = 2
  /\ Cardinality(EpisodeVoiceLines(dbVoiceLines)) = 2
  /\ \A v \in EpisodeVoiceLines(dbVoiceLines) : v.run = 2

\* C12: when the job carries no episodeId (null) and the payload carries no
\* non-blank episodeId (absent, empty or blank), handleStoryToScriptTask
\* rejects with 'episodeId is required' before any database read, progress
\* report or LLM call.
C12_MissingEpisodeIdRejected ==
  handler = "s2s" /\ jobData.jobEpisodeId = "" /\ jobData.payloadEpisodeId \in {"absent", "", " "} =>
    /\ pc = "failed"
    /\ outcome = "episodeId is required"
    /\ dbReads = 0
    /\ progressLog = <<>>
    /\ llmCalls = 0

\* rejected for a payload whose episodeId is a blank string
C12_Witness ==
  /\ handler = "s2s"
  /\ pc = "failed"
  /\ outcome = "episodeId is required"
  /\ jobData.jobEpisodeId = ""
  /\ jobData.payloadEpisodeId = " "

NoRowsOfRun ==
  /\ {r \in dbCharacters : r.run = run} = {}
  /\ {r \in dbLocations : r.run = run} = {}
  /\ {c \in dbClips : c.run = run} = {}

\* C13: whenever the story-to-script orchestrator has returned a result with at
\* least one failed screenplay item, the handler rejects with
\* STORY_TO_SCRIPT_PARTIAL_FAILED, the error names a failing clip, and the job
\* has written no character, location, clip or screenplay.
C13_PartialFailureRejected ==
  handler = "s2s" /\ OrchestratorReturned /\ FailedCount > 0 /\ pc # "checkPartial" =>
    /\ pc = "failed"
    /\ outcome = "STORY_TO_SCRIPT_PARTIAL_FAILED"
    /\ Len(errorPreview) > 0
    /\ screenplayResults[errorPreview[1].clipId] # "ok"
    /\ NoRowsOfRun

\* one clip of two failed, and the analysis had found new characters to write
C13_Witness ==
  /\ handler = "s2s"
  /\ pc = "failed"
  /\ outcome = "STORY_TO_SCRIPT_PARTIAL_FAILED"
  /\ Len(screenplayResults) = 2
  /\ screenplayResults[1] = "ok"
  /\ FailedCount = 1
  /\ analyzedCharacters = Names

FailedClips == {k \in DOMAIN screenplayResults : screenplayResults[k] # "ok"}

\* C14: the PARTIAL_FAILED error carries a preview of exactly
\* min(3, number of failed screenplay items) entries; they are the first failed
\* items in screenplayResults order, each with its clip id and its reason
\* ('unknown error' when the item has none).
C14_PreviewOfFirstFailures ==
  pc = "failed" /\ outcome = "STORY_TO_SCRIPT_PARTIAL_FAILED" =>
    /\ Len(errorPreview) = Min(3, Cardinality(FailedClips))
    /\ \A i \in DOMAIN errorPreview :
         /\ errorPreview[i].clipId \in FailedClips
         /\ Cardinality({k \in FailedClips : k < errorPreview[i].clipId}) = i - 1
         /\ errorPreview[i].reason =
              (IF screenplayResults[errorPreview[i].clipId] = "fail_blank"
               THEN "unknown error" ELSE "error")

\* four clips of five failed, the first after a clip that succeeded: the
\* preview holds clips 2, 3 and 4
C14_Witness ==
  /\ pc = "failed"
  /\ outcome = "STORY_TO_SCRIPT_PARTIAL_FAILED"
  /\ Len(screenplayResults) = 5
  /\ screenplayResults[1] = "ok"
  /\ Cardinality(FailedClips) = 4
  /\ screenplayResults[3] = "fail_blank"
  /\ [i \in DOMAIN errorPreview |-> errorPreview[i].clipId] = <<2, 3, 4>>

\* the model the job must run with, given what the prologue has read
ExpectedModel(data) ==
  LET requested == IF data.payloadModel = " " THEN "" ELSE data.payloadModel
      configured == IF data.ownModel = "null" THEN data.userPreference ELSE data.ownModel
  IN IF requested # "" THEN requested
     ELSE IF configured = "null" THEN ""
     ELSE configured

\* C15: the analysis model of a job is the non-blank payload.model when there
\* is one, otherwise the analysisModel returned by getProjectModelConfig; it is
\* fixed when the prologue resolves it and is the model of every LLM call of
\* the job; when the project's own analysisModel is null and the resolver
\* returns the user-preference model, the job runs with that model and is not
\* rejected with 'analysisModel is not configured'.
C15_ModelResolution ==
  [][ /\ (jobData'.payloadModel # "unread" => model' = ExpectedModel(jobData'))
      /\ (model' # model => pc = "resolveModel" \/ ~SameJob)
      /\ (llmCalls' > llmCalls => llmModel' = model /\ model # "" /\ model' = model)
      /\ (jobData'.ownModel = "null" /\ jobData'.userPreference = "m2" =>
            /\ outcome' # "analysisModel is not configured"
            /\ model' \in {"m1", "m2"}
            /\ (jobData'.payloadModel \in {"", " "} => model' = "m2")) ]_vars

\* a job without a requested model whose project has no model of its own runs
\* with the model of the user's preferences
C15_Witness ==
  /\ pc \in {"checkContent", "reportPrepare"}
  /\ jobData.payloadModel = " "
  /\ jobData.ownModel = "null"
  /\ jobData.userPreference = "m2"
  /\ model = "m2"

\* C16: when the payload gives no model and the resolver yields null or an
\* empty analysisModel, the handler rejects with 'analysisModel is not
\* configured'; the job has made no progress report and no LLM call, has no
\* model, and has written no row.
C16_UnconfiguredModelRejected ==
  /\ jobData.payloadModel \in {"", " "}
  /\ jobData.ownModel = "null"
  /\ jobData.userPreference \in {"null", ""}
  =>
    /\ pc = "failed"
    /\ outcome = "analysisModel is not configured"
    /\ model = ""
    /\ llmModel = "none"
    /\ llmCalls = 0
    /\ progressLog = <<>>
    /\ NoRowsOfRun
    /\ \A table \in {dbStoryboards, dbPanels, dbVoiceLines} : \A r \in table : r.run # run

\* a script-to-storyboard job whose resolver returned an empty analysisModel
C16_Witness ==
  /\ handler = "s2b"
  /\ pc = "failed"
  /\ outcome = "analysisModel is not configured"
  /\ jobData.payloadModel = " "
  /\ jobData.userPreference = ""

PersistPhaseS2S == {"persistCharacters", "persistLocations", "persistClips", "updateScreenplay"}

\* C17: in handleStoryToScriptTask, when the episode is gone at the re-read
\* that follows orchestration, the handler rejects with the NOT_FOUND error
\* and writes nothing; a job rejected with NOT_FOUND has written no character,
\* location or clip, and the handler writes only after that re-read.
C17_VanishedEpisodeRejected ==
  [][ /\ (pc = "recheckEpisode" /\ ~episodeExists /\ pc' # pc =>
            pc' = "failed" /\ outcome' = "NOT_FOUND" /\ dbVars' = dbVars)
      /\ (pc' = "failed" /\ outcome' = "NOT_FOUND" => handler = "s2s" /\ NoRowsOfRun')
      /\ (handler = "s2s" /\ HandlerWrites => pc \in PersistPhaseS2S) ]_vars

\* the episode was deleted while the LLM steps ran, after the analysis had
\* found new characters
C17_Witness ==
  /\ handler = "s2s"
  /\ pc = "failed"
  /\ outcome = "NOT_FOUND"
  /\ llmCalls > 0
  /\ analyzedCharacters = Names

\* C18: in handleScriptToStoryboardTask the episode is verified again before
\* storyboards, panels or voice lines are written: a job whose episode was
\* deleted after its orchestrator started never runs into the error of a
\* write into the missing episode.
C18_StoryboardWritesReverified ==
  handler = "s2b" /\ pc = "failed" /\ ~episodeExists /\ OrchestratorReturned =>
    outcome # "DB_ERROR"

\* C19: whenever handleStoryToScriptTask ends after its orchestrator returned a
\* complete result and the episode has been deleted meanwhile, it has failed
\* with the NOT_FOUND error and no clip row is attached to the episode.
C19_DeletionAlwaysNotFound ==
  /\ handler = "s2s"
  /\ pc \in Terminal
  /\ ~episodeExists
  /\ OrchestratorReturned
  /\ FailedCount = 0
  /\ outcome # "TaskTerminated"
  =>
    /\ outcome = "NOT_FOUND"
    /\ EpisodeClips = {}

ValidationErrors ==
  {"episodeId is required", "Project not found", "Not a novel promotion project",
   "Novel promotion data not found", "Episode not found", "No clips found",
   "analysisModel is not configured", "content is required", "No novel text to analyze"}

\* C20: in both handlers a job rejected by a validation failure has made no
\* LLM call and has written no row.
C20_ValidationBeforeWork ==
  pc = "failed" /\ outcome \in ValidationErrors =>
    /\ llmCalls = 0
    /\ NoRowsOfRun
    /\ {b \in dbStoryboards : b.run = run} = {}
    /\ {q \in dbPanels : q.run = run} = {}

\* the stage of the job's state machine the handler is in
StepRunning == {"rs_assert", "rs_report", "rs_logPrompt", "rs_llm", "rs_logOutput"}
PersistingStarted == \E i \in DOMAIN progressLog : progressLog[i] = ProgressPersist

\* C21: a job goes received -> prepared -> step-running -> persisting -> done
\* (or fails) without re-entering a stage: once the job has announced the
\* persisting stage, it is never inside an LLM step again.
C21_NoStepAfterPersisting ==
  PersistingStarted => pc \notin StepRunning

\* the call sites of reportTaskProgress and where the handler goes from each
ReportSites == {"reportPrepare", "rs_report", "reportPersist", "reportDone"}
AfterReport(site) ==
  CASE site = "reportPrepare" -> "orchStart"
    [] site = "rs_report" -> "rs_logPrompt"
    [] site = "reportPersist" -> "assertPersist"
    [] site = "reportDone" -> "done"

OrchestratorThrew == flushes > 0 /\ pendingErr # "none"

\* C23: when the script-to-storyboard orchestrator throws a JsonParseError the
\* handler writes exactly one parse-error audit entry and rejects with that
\* error; for any other error of the orchestrator it writes none and rejects
\* with that error; in both cases the job has persisted nothing.
C23_ParseErrorLoggedOnce ==
  /\ parseErrorLogs \in {0, 1}
  /\ (parseErrorLogs = 1 => handler = "s2b" /\ pendingErr = "JsonParseError")
  /\ (handler = "s2b" /\ OrchestratorThrew =>
        /\ pc = "failed"
        /\ outcome = pendingErr
        /\ parseErrorLogs = (IF pendingErr = "JsonParseError" THEN 1 ELSE 0)
        /\ \A table \in {dbStoryboards, dbPanels, dbVoiceLines} : \A r \in table : r.run # run)

\* the orchestrator threw the parse error at a later step, after steps that
\* had succeeded
C23_Witness ==
  /\ handler = "s2b"
  /\ pc = "failed"
  /\ outcome = "JsonParseError"
  /\ parseErrorLogs = 1
  /\ orchStep > 0

\* the generated row a voice line of the running job was built from
GeneratedRow(v) == voiceLineRows.rows[v.id[2]]

\* C24: a voice line of the job is never stored with an emotionStrength or a
\* lineIndex that differs from the generated value (a value out of range or
\* not an integer aborts the transaction instead of being clamped or rounded).
C24_NoCoercedValue ==
  handler = "s2b" /\ voiceLineRows # NoRows =>
    \A v \in txVoiceLines \cup dbVoiceLines :
      v.run = run /\ v.id[2] <= Len(voiceLineRows.rows) =>
        /\ v.emotionStrength = GeneratedRow(v).emotionStrength
        /\ v.lineIndex * 10 = GeneratedRow(v).lineIndex

\* C25: every voice line the job committed has matchedPanelId null exactly when
\* the generated line had no matchedPanel, and otherwise the id of a panel this
\* job created with the storyboardId and panelIndex of the line (never a panel
\* that existed before the job); matchedStoryboardId is non-null exactly when
\* matchedPanelId is.
C25_PanelOfSameRun ==
  handler = "s2b" /\ voiceLineRows # NoRows =>
    \A v \in dbVoiceLines :
      v.run = run =>
        /\ (v.matchedPanelId = Null) = ~GeneratedRow(v).matchedPanel.present
        /\ (v.matchedPanelId # Null =>
              \E b \in persistedStoryboards : \E p \in b.panels :
                /\ p.id = v.matchedPanelId
                /\ p.id[1] = run
                /\ b.storyboardId = GeneratedRow(v).matchedPanel.storyboardId
                /\ p.panelIndex = GeneratedRow(v).matchedPanel.panelIndex)
        /\ (v.matchedStoryboardId # Null) = (v.matchedPanelId # Null)

\* a job committed one line that names a panel it created and one line with
\* no matchedPanel, while a panel older than the job was in the table
C25_Witness ==
  /\ handler = "s2b"
  /\ pc = "done"
  /\ \E v \in dbVoiceLines : v.run = run /\ v.matchedPanelId # Null
  /\ \E v \in dbVoiceLines : v.run = run /\ v.matchedPanelId = Null
  /\ \E p \in dbPanels : p.run # run

ErrorLogged(err) == err = "JsonParseError" /\ parseErrorLogs > 0

\* C27: an error a handler caught is re-thrown or logged before the handler
\* goes on; in particular, once a later voice-analysis attempt has succeeded,
\* the error of the failed attempt is in the error log or is the error the
\* job rejects with.
C27_NoCaughtErrorDropped ==
  handler = "s2b" /\ voiceLastError # "none" /\ voiceLineRows # NoRows =>
    ErrorLogged(voiceLastError) \/ outcome = voiceLastError

\* a request in local storage mode for a media row whose file is on disk
LocalFileExists ==
  /\ mediaReq.isLocalStorage
  /\ mediaReq.media.found
  /\ mediaReq.media.storageKey # <<>>
  /\ InsideUploadDir(NormalizePath(GetLocalFilePath(mediaReq.media.storageKey)))
  /\ mediaReq.disk.code = ""

Finished == mediaRes.pc \in {"responded", "threw"}

FirstAt(paths) ==
  LET text(i) == IF genResponse.kind = "object" /\ paths[i] \in DOMAIN genResponse.fields
                 THEN TrimTokens(genResponse.fields[paths[i]]) ELSE <<>>
      hits == {i \in DOMAIN paths : text(i) # <<>>}
  IN IF hits = {} THEN <<>> ELSE text(CHOOSE i \in hits : \A j \in hits : i <= j)

\* C29: the image generator resolves its result by a fixed precedence over the
\* provider response: a URL at a known URL path wins; otherwise a base64
\* payload at a known base64 path is returned raw and as a data:image URL;
\* otherwise the URL extracted from an HTML payload at a known HTML path;
\* otherwise it throws RESULT_UNSUPPORTED.  It never succeeds without imageUrl.
C29_ResultPrecedence ==
  genResult # NoResponse =>
    /\ (genResult.success => genResult.imageUrl # <<>>)
    /\ IF FirstAt(ImageUrlPaths) # <<>>
       THEN /\ genResult.success
            /\ genResult.imageUrl = FirstAt(ImageUrlPaths)
            /\ genResult.imageBase64 = <<>>
       ELSE IF FirstAt(ImageBase64Paths) # <<>>
       THEN /\ genResult.success
            /\ genResult.imageBase64 = FirstAt(ImageBase64Paths)
            /\ genResult.imageUrl[1] = "data:image/"
            /\ \E k \in 1..Len(genResult.imageUrl) :
                 SubSeq(genResult.imageUrl, k, Len(genResult.imageUrl)) = genResult.imageBase64
       ELSE IF ExtractUrlFromHtml(FirstAt(ImageHtmlPaths)) # <<>>
       THEN /\ genResult.success
            /\ genResult.imageUrl = ExtractUrlFromHtml(FirstAt(ImageHtmlPaths))
            /\ genResult.imageBase64 = <<>>
       ELSE /\ ~genResult.success
            /\ genResult.error = "OPENAI_COMPATIBLE_IMAGE_RESULT_UNSUPPORTED"

\* the same statement for the responses that are JSON objects
ObjectResultPrecedence == genResponse # NoResponse /\ genResponse.kind = "object" => C29_ResultPrecedence

\* C30: the first voice-analysis attempt runs under stepId voice_analyze and
\* the second under voice_analyze_r2; both carry the same stepIndex and
\* stepTotal, equal to the totalStepCount of the orchestrator.
C30_RetryStepMeta ==
  rsCaller = "voice" =>
    /\ voiceAttempt \in 1..MaxVoiceAttempts
    /\ rsMeta.stepId = (IF voiceAttempt = 1 THEN "voice_analyze" ELSE "voice_analyze_r2")
    /\ rsMeta.stepIndex = OrchTotal
    /\ rsMeta.stepTotal = OrchTotal
    /\ orchStep = OrchTotal

\* the second attempt has reached the LLM after the first one failed
C30_Witness ==
  /\ rsCaller = "voice"
  /\ voiceAttempt = 2
  /\ voiceLog = <<"LLM_ERROR">>
  /\ rsMeta.stepId = "voice_analyze_r2"
  /\ rsMeta.stepIndex = PhasesPerClip * MaxClips
  /\ pc = "rs_llm"

\* the percentage runStep reported for rsMeta, once it has reported
Reported == progressLog[Len(progressLog)]

\* C31: for every stepIndex >= 0 and every stepTotal (0 and totals below the
\* index included) the percentage runStep reports is
\* 15 + min(55, floor(stepIndex / max(1, stepTotal) * 55)): it lies in the
\* band 15..70, strictly between the prepare report (10) and the persist
\* report (80), it is 15 for index 0 and 70 from index = max(1, total) on.
C31_StepProgressBand ==
  pc = "rs_logPrompt" /\ Len(progressLog) > 1 =>
    LET i == rsMeta.stepIndex
        t == IF rsMeta.stepTotal > 1 THEN rsMeta.stepTotal ELSE 1
    IN /\ Reported \in 15..70
       /\ ProgressPrepare < Reported /\ Reported < ProgressPersist
       /\ (i = 0 => Reported = 15)
       /\ (i >= t => Reported = 70)
       /\ (i < t => Reported \in {15 + (i * 55) \div t, 15 + (i * 55) \div t - 1})
       /\ (i < t /\ (i * 55) % t # 0 => Reported = 15 + (i * 55) \div t)

\* a step whose total is 0 and a step past its total have both reported 70
C31_Witness ==
  /\ pc = "rs_logPrompt"
  /\ rsMeta.stepIndex = MaxStepIndex
  /\ rsMeta.stepTotal \in {0, MaxStepIndex - 1}
  /\ Reported = 70

\* the orchestrator call has begun (it follows the prepare report) and has
\* not ended yet
InOrchestrator ==
  \/ pc \in {"orchStart", "orch", "orch_ret", "orch_catch", "flush"}
  \/ (rsCaller = "orch" /\ pc \notin Terminal)

\* C32: in both handlers the stream callbacks are flushed exactly once per
\* job, when the orchestrator call has ended, whether it returned or threw:
\* no flush before that, one flush in every later state, the rejected state
\* included, and no row of the job is written before the flush.
C32_FlushOnceAfterOrchestrator ==
  /\ flushes \in {0, 1}
  /\ (progressLog = <<>> \/ InOrchestrator => flushes = 0)
  /\ (progressLog # <<>> /\ ~InOrchestrator => flushes = 1)
  /\ (flushes = 0 =>
        /\ ~txOpen
        /\ \A table \in {dbCharacters, dbLocations, dbClips, dbStoryboards, dbPanels,
                          dbVoiceLines} : \A r \in table : r.run # run)

\* a job cancelled inside the orchestrator, after an LLM call, was rejected
\* with the stream flushed
C32_Witness ==
  /\ pc = "failed"
  /\ outcome = "TaskTerminated"
  /\ pendingErr = "TaskTerminated"
  /\ llmCalls > 0
  /\ flushes = 1

C35_UploadRetries ==
  /\ upload.puts <= upload.maxRetries
  /\ upload.pc = "returned" =>
       /\ upload.result = upload.key
       /\ upload.puts = Len(upload.errors) + 1
       /\ Len(upload.waits) = Len(upload.errors)
  /\ upload.pc = "attempt" =>
       Len(upload.waits) = Min(Len(upload.errors), Max(0, upload.maxRetries - 1))
  /\ upload.pc = "threw" =>
       /\ upload.puts = upload.maxRetries
       /\ Len(upload.errors) = upload.puts
       /\ upload.puts > 0 =>
            /\ Len(upload.waits) = upload.puts - 1
            /\ upload.thrown = upload.errors[upload.puts]

C35_Witness ==
  /\ upload.pc = "threw"
  /\ upload.maxRetries = COS_MAX_RETRIES
  /\ upload.waits = <<2, 4>>
  /\ upload.errors = <<"ETIMEDOUT", "ECONNRESET", "AccessDenied">>

\* C36: a call without forceRefresh issued while an unexpired entry exists for
\* the URL (its download settled or still in flight) starts no download and
\* receives the promise of that entry's download, so all such calls on one
\* entry share the one download that created it.
C36_SharedDownload ==
  /\ \A i \in DOMAIN imageCache.callers :
       LET c == imageCache.callers[i]
       IN ~c.forceRefresh /\ c.cached # 0 => c.got = c.cached
  /\ Len(imageCache.downloads) =
       Cardinality({i \in DOMAIN imageCache.callers :
                      imageCache.callers[i].forceRefresh
                        \/ imageCache.callers[i].cached = 0})
  /\ \A i \in DOMAIN imageCache.callers :
       imageCache.callers[i].got \in DOMAIN imageCache.downloads

C36_Witness ==
  /\ Len(imageCache.callers) = 3
  /\ Len(imageCache.downloads) = 1
  /\ imageCache.downloads[1] = "ok"
  /\ \A i \in 1..3 : imageCache.callers[i].got = 1
  /\ imageCache.callers[2].cached = 1

\* C37: the failure of a download removes only the entry that holds its own
\* promise, never a newer entry for the URL.
C37_FailureEvictsOwnEntry ==
  \A i \in DOMAIN imageCache.evictions :
    imageCache.evictions[i].entry \in {0, imageCache.evictions[i].by}

\* a local-storage request for a row whose storageKey resolves outside the
\* upload directory
KeyEscapes ==
  /\ mediaReq.isLocalStorage
  /\ mediaReq.media.found
  /\ mediaReq.media.storageKey # <<>>
  /\ ~InsideUploadDir(NormalizePath(GetLocalFilePath(mediaReq.media.storageKey)))

\* C38 as stated: every request for a storageKey that resolves outside the
\* upload directory is answered with 403, and no file is read.
C38_EscapeAnswered403 ==
  KeyEscapes /\ Finished => mediaRes.status = 403 /\ mediaRes.reads = 0

\* C38: in local storage mode no file is read for a storageKey that resolves
\* outside the upload directory; the request is answered 403 with no body,
\* unless its If-None-Match equals the row's ETag, which is answered 304
\* before the path is looked at.
C38_EscapeNeverRead ==
  KeyEscapes =>
    /\ mediaRes.reads = 0
    /\ mediaRes.fetches = 0
    /\ mediaRes.pc # "read"
    /\ Finished =>
         /\ mediaRes.pc = "responded"
         /\ mediaRes.body = <<>>
         /\ mediaRes.status =
              (IF mediaReq.ifNoneMatch = BuildEtag(mediaReq.media) THEN 304 ELSE 403)

C38_Witness ==
  /\ KeyEscapes
  /\ mediaReq.media.storageKey = <<"..", "secret.png">>
  /\ mediaReq.disk.code = ""
  /\ Len(mediaReq.disk.bytes) > 0
  /\ mediaRes.pc = "responded"
  /\ mediaRes.status = 403
  /\ mediaRes.reads = 0

\* C39: after a shutdown signal the process exits only after close() has
\* completed for every worker, and once a signal has been received it does
\* eventually exit.
C39_ExitAfterEveryClose ==
  /\ [](workerProc.pc = "exited" =>
          \A w \in Workers : workerProc.close[w] = "closed")
  /\ (workerProc.shutdowns # <<>> ~> workerProc.pc = "exited")

\* process.exit(0) is reached only with every worker closed
ExitZeroAfterEveryClose ==
  workerProc.pc = "exited" /\ workerProc.exitCode = 0 =>
    \A w \in Workers : workerProc.close[w] = "closed"

\* mutation i fails in this step
FailsNow(i) ==
  /\ i \in DOMAIN projectCache.mutations
  /\ projectCache.mutations[i].pc = "pending"
  /\ projectCache'.mutations[i].pc = "failed"

\* C40: the rollback of a failed mutation leaves in the cache the optimistic
\* value of every other mutation that is in flight or has succeeded, and the
\* failure of a single mutation restores the project cached before it.
C40_RollbackOwnChangeOnly ==
  [][\A i \in DOMAIN projectCache.mutations :
       FailsNow(i) =>
         /\ \A j \in DOMAIN projectCache.mutations \ {i} :
              LET m == projectCache.mutations[j]
              IN m.pc \in {"pending", "succeeded"}
                   /\ projectCache.cache.data[m.key] = m.value
                 => projectCache'.cache.data[m.key] = m.value
         /\ Len(projectCache.mutations) = 1 =>
              projectCache'.cache = projectCache.initial]_vars

\* the single-mutation half by itself
SingleFailureRestores ==
  /\ Len(projectCache.mutations) = 1
  /\ projectCache.mutations[1].pc = "failed"
  => projectCache.cache = projectCache.initial

====
